---- MODULE Spec2Model ----
(***************************************************************************)
(* structx: the Extractor pipeline (extraction/extractor.py), the error    *)
(* wrapping decorator and the flattening helper (utils/helpers.py), the    *)
(* file reader (utils/file_reader.py), the result container                *)
(* (core/models.py), the prompt templates                                  *)
(* (utils/prompts.py) and the changelog script                             *)
(* (scripts/generate_changelog.py) as a state machine.                     *)
(*                                                                         *)
(* One behaviour is one call of a public operation on one Extractor.  The  *)
(* main thread runs stages 1-4 and the batch loop; every row of a batch    *)
(* gets its own worker thread.  The LLM client, the model generator and    *)
(* pandas are the environment: each call into them returns or raises,      *)
(* chosen nondeterministically.                                            *)
(*                                                                         *)
(*   Spec            extract or get_schema                                 *)
(*   SpecAsync       extract beside extract_async                          *)
(*   SpecBatch       extract_batch over a list of queries                  *)
(*   SpecConcurrent  extract_async while a second call dispatches a batch  *)
(*   SpecWait        the wait of the retry decorator, by itself            *)
(*   SpecFair        Spec with the threads scheduled fairly                *)
(*   SpecRate        ExtractionResult.success_rate over the result sizes   *)
(*   SpecConstruct   Extractor.__init__ over the values of config          *)
(*   SpecFile        validate_file and read_file over the files            *)
(*   SpecFlatten     flatten_extracted_data over the dumped models         *)
(*   SpecWrapper     a call of a function decorated with handle_errors     *)
(*   SpecChangelog   process_changelog: read, group, render, write         *)
(***************************************************************************)
EXTENDS Integers, Sequences, FiniteSets, TLC

(* ---------------------------- bounds ----------------------------------- *)
MaxRows == 2
MaxBatch == 2
MaxThreads == 2
MaxRetries == 2
MaxItems == 2
MaxWait == 5
MaxAttempt == 5
MaxQueries == 2
MaxVersions == 2
MaxCount == 7

(* ---------------------------- constants of the domain ------------------ *)
Columns == {"text", "note"}
NoColumn == "nocol"

Min(a, b) == IF a < b THEN a ELSE b
Max(a, b) == IF a > b THEN a ELSE b

(* the last element of a non-empty sequence *)
Last(seq) == seq[Len(seq)]

NoExc == [type |-> "none", msg |-> <<>>]

(* an exception: its kind and str(e), kept as the ": "-separated segments *)
Exc(type, text) == [type |-> type, msg |-> <<text>>]

(* what a call gives its caller: a value, or an exception *)
Returned(v) == [ok |-> TRUE, value |-> v, exc |-> NoExc]
Raised(e) == [ok |-> FALSE, value |-> <<>>, exc |-> e]

(* ---------------------------- helpers.handle_errors -------------------- *)
None == "None"

(* a wrapper that returns default_return whatever it is *)
HandleErrorsReturnsDefault(error_message, error_type, default_return, e) ==
    Returned(default_return)

(* what the wrapper does when the wrapped function raised e: it returns    *)
(* default_return unless that is None, and else raises error_type with the *)
(* composed message                                                        *)
HandleErrors(error_message, error_type, default_return, e) ==
    IF default_return # None THEN Returned(default_return)
    ELSE Raised([type |-> error_type, msg |-> <<error_message>> \o e.msg])

(* a wrapper without the try: what the function did is what the caller    *)
(* gets                                                                    *)
WrapperWithoutTry(error_message, error_type, default_return, result) == result

(* handle_errors(error_message, error_type, default_return)(func) called,  *)
(* result being what func itself returned or raised                        *)
Wrapper(error_message, error_type, default_return, result) ==
    IF result.ok THEN result
    ELSE HandleErrors(error_message, error_type, default_return, result.exc)

(* what a decorated function may do: return a value, return None, raise *)
FuncResults ==
    {Returned("value"), Returned(None)}
        \cup {Raised(Exc(type, "boom")) : type \in {"ValueError", "ExtractionError", "KeyError"}}

(* the arguments handle_errors is given: default_return absent, falsy      *)
(* ([] and 0) or truthy                                                    *)
DecoratorArguments ==
    [error_message : {"Extraction failed", "Schema generation failed"},
     error_type : {"ExtractionError", "FileError", "ValueError"},
     default_return : {None, "[]", "0", "default"},
     func : FuncResults]

(* e passed outwards through the nested decorators of the Extractor,       *)
(* innermost first; each is handle_errors(message, ExtractionError) with   *)
(* default_return left at None.  A wrapper that returns ends the passing.  *)
RECURSIVE Propagate(_, _)
Propagate(e, wrappers) ==
    IF wrappers = <<>> THEN Raised(e)
    ELSE LET r == HandleErrors(Head(wrappers), "ExtractionError", None, e) IN
         IF r.ok THEN r ELSE Propagate(r.exc, Tail(wrappers))

(* ---------------------------- models.ExtractionResult ------------------ *)
(* the numbers of the properties: an int, or the float a division gives,   *)
(* kept exact as a fraction in lowest terms with a positive denominator    *)
RECURSIVE Gcd(_, _)
Gcd(a, b) == IF b = 0 THEN a ELSE Gcd(b, a % b)

Fraction(n, d) == LET g == Gcd(n, d) IN [num |-> n \div g, den |-> d \div g]
Whole(n) == Fraction(n, 1)
Divide(a, b) == Fraction(a.num * b.den, a.den * b.num)
Times(a, b) == Fraction(a.num * b.num, a.den * b.den)

(* an ExtractionResult: data is a DataFrame or a list, of `data` rows or   *)
(* elements; failed is a DataFrame of `failed` rows                        *)
ExtractionResults == [frame : BOOLEAN, data : 0..MaxCount, failed : 0..MaxCount]

(* success_count: len(self.data), on both branches of the isinstance test *)
SuccessCount(result) == IF result.frame THEN result.data ELSE result.data

(* failure_count: len(self.failed) *)
FailureCount(result) == result.failed

(* a rate that is the ratio itself *)
SuccessRateAsRatio(result) ==
    LET total == SuccessCount(result) + FailureCount(result) IN
    IF total > 0 THEN Divide(Whole(SuccessCount(result)), Whole(total)) ELSE Whole(0)

(* success_rate: (self.success_count / total * 100) if total > 0 else 0 *)
SuccessRate(result) ==
    LET total == SuccessCount(result) + FailureCount(result) IN
    IF total > 0 THEN Times(Divide(Whole(SuccessCount(result)), Whole(total)), Whole(100))
    ELSE Whole(0)

(* ---------------------------- helpers.flatten_extracted_data ----------- *)
(* the values of a dumped model: a type, and the number, the string or    *)
(* the content that a value of the type has.  The content of a dict is the *)
(* sequence of its items in insertion order, that of a list its elements,  *)
(* each kept as an item without a key                                      *)
Pair(key, value) == [key |-> key, value |-> value]
Number(n) == [t |-> "int", n |-> n, s |-> "", v |-> <<>>]
Text(str) == [t |-> "str", n |-> 0, s |-> str, v |-> <<>>]
Mapping(items) == [t |-> "dict", n |-> 0, s |-> "", v |-> items]
ListOf(elements) ==
    [t |-> "list", n |-> 0, s |-> "",
     v |-> [i \in 1..Len(elements) |-> Pair("", elements[i])]]

(* json.dumps: numbers in decimal, strings quoted, ", " between elements   *)
(* and ": " after a key                                                    *)
RECURSIVE Dumps(_)
RECURSIVE DumpsFrom(_, _)
Dumps(value) ==
    CASE value.t = "int" -> ToString(value.n)
      [] value.t = "str" -> "\"" \o value.s \o "\""
      [] value.t = "list" -> "[" \o DumpsFrom(value.v, 1) \o "]"
      [] value.t = "dict" -> "{" \o DumpsFrom(value.v, 1) \o "}"

(* the elements or items of a list or dict from position i on *)
DumpsFrom(elements, i) ==
    IF i > Len(elements) THEN ""
    ELSE LET x == elements[i]
             one == IF x.key # ""
                    THEN "\"" \o x.key \o "\": " \o Dumps(x.value)
                    ELSE Dumps(x.value)
         IN one \o (IF i < Len(elements) THEN ", " ELSE "") \o DumpsFrom(elements, i + 1)

(* d[key] = value on a dict kept as its items: an existing key keeps its   *)
(* place and gets the value, a new key is appended                         *)
SetItem(d, key, value) ==
    IF \E i \in 1..Len(d) : d[i].key = key
    THEN [i \in 1..Len(d) |-> IF d[i].key = key THEN Pair(key, value) ELSE d[i]]
    ELSE Append(d, Pair(key, value))

(* flattened.update(nested) *)
RECURSIVE Update(_, _)
Update(d, nested) ==
    IF nested = <<>> THEN d
    ELSE Update(SetItem(d, Head(nested).key, Head(nested).value), Tail(nested))

(* new_key = f"{prefix}_{key}" if prefix else key *)
NewKey(prefix, key) == IF prefix # "" THEN prefix \o "_" \o key ELSE key

(* a key that counts the elements of a list from one *)
IndexKeyFromOne(new_key, position) == new_key \o "_" \o ToString(position)

(* f"{new_key}_{i}" for the element at the given position, which enumerate *)
(* counts from zero                                                        *)
IndexKey(new_key, position) == new_key \o "_" \o ToString(position - 1)

(* flatten_extracted_data(data, prefix), data given as its items: the loop *)
(* over data.items() from item i on, with the dict built so far.  An       *)
(* element that is no dict, in a list whose first element is one, has no   *)
(* .items()                                                                *)
RECURSIVE FlattenItems(_, _, _, _)
RECURSIVE FlattenElements(_, _, _, _)
FlattenItems(items, prefix, i, flattened) ==
    IF i > Len(items) THEN Returned(flattened)
    ELSE LET value == items[i].value
             new_key == NewKey(prefix, items[i].key)
         IN CASE value.t = "dict" ->
                   LET nested == FlattenItems(value.v, new_key, 1, <<>>) IN
                   IF nested.ok
                   THEN FlattenItems(items, prefix, i + 1, Update(flattened, nested.value))
                   ELSE nested
              [] value.t = "list" ->
                   IF value.v # <<>> /\ value.v[1].value.t = "dict"
                   THEN LET r == FlattenElements(value.v, new_key, 1, flattened) IN
                        IF r.ok THEN FlattenItems(items, prefix, i + 1, r.value) ELSE r
                   ELSE FlattenItems(items, prefix, i + 1,
                                     SetItem(flattened, new_key, Text(Dumps(value))))
              [] OTHER ->
                   FlattenItems(items, prefix, i + 1, SetItem(flattened, new_key, value))

(* `for i, item in enumerate(value)` from the element at position on *)
FlattenElements(elements, new_key, position, flattened) ==
    IF position > Len(elements) THEN Returned(flattened)
    ELSE IF elements[position].value.t # "dict"
         THEN Raised(Exc("AttributeError", "object has no attribute 'items'"))
         ELSE LET nested == FlattenItems(elements[position].value.v, IndexKey(new_key, position),
                                         1, <<>>)
              IN IF nested.ok
                 THEN FlattenElements(elements, new_key, position + 1,
                                      Update(flattened, nested.value))
                 ELSE nested

FlattenExtractedData(data, prefix) == FlattenItems(data.v, prefix, 1, <<>>)

(* values a field of a dumped model holds: scalars, dicts of one and two   *)
(* levels, an empty dict, lists of scalars, of dicts, of lists, an empty   *)
(* list, lists that mix dicts and scalars, and lists inside dicts          *)
FieldValues ==
    { Number(1), Text("x"),
      Mapping(<<>>),
      Mapping(<<Pair("b", Number(1)), Pair("c", Number(2))>>),
      Mapping(<<Pair("b", Mapping(<<Pair("c", Text("y"))>>))>>),
      Mapping(<<Pair("b", ListOf(<<Number(1), Number(2)>>))>>),
      Mapping(<<Pair("b", ListOf(<<Mapping(<<Pair("c", Number(1))>>)>>))>>),
      ListOf(<<>>),
      ListOf(<<Number(1), Number(2), Number(3)>>),
      ListOf(<<Text("x"), Number(1)>>),
      ListOf(<<ListOf(<<Number(1)>>)>>),
      ListOf(<<Mapping(<<Pair("b", Number(1))>>), Mapping(<<Pair("b", Number(2))>>)>>),
      ListOf(<<Mapping(<<Pair("b", Mapping(<<Pair("c", Number(1))>>))>>)>>),
      ListOf(<<Mapping(<<Pair("b", ListOf(<<Text("x")>>))>>), Mapping(<<>>)>>),
      ListOf(<<Mapping(<<Pair("b", Number(1))>>), Number(2)>>),
      ListOf(<<Number(2), Mapping(<<Pair("b", Number(1))>>)>>) }

(* the dumped models: no field, field a, field d, or both in either order *)
DumpedModels ==
    {Mapping(<<>>)}
        \cup {Mapping(<<Pair(k, x)>>) : k \in {"a", "d"}, x \in FieldValues}
        \cup {Mapping(<<Pair(k[1], x), Pair(k[2], y)>>) :
                k \in {<<"a", "d">>, <<"d", "a">>}, x \in FieldValues, y \in FieldValues}

(* ---------------------------- utils/file_reader.py --------------------- *)
SupportedExtensions == {".csv", ".xlsx", ".xls", ".json", ".parquet"}

(* str.lower() on the suffixes the model uses *)
Lower(suffix) ==
    CASE suffix = ".CSV" -> ".csv"
      [] suffix = ".Xlsx" -> ".xlsx"
      [] OTHER -> suffix

(* the in-memory table of n rows: row r holds <<c, r>> in column c; a row's *)
(* index label is its position                                             *)
Table(n) == [r \in 1..n |-> [c \in Columns |-> <<c, r>>]]

(* a file on disk: whether it exists, its suffix, whether the pandas       *)
(* reader can parse it, and how many rows it holds (none or one: a longer  *)
(* file gives the table an in-memory argument of that length gives)        *)
Files ==
    [exists : BOOLEAN, suffix : {".csv", ".CSV", ".txt"}, parses : BOOLEAN, rows : 0..1]

(* a validation that compares the suffix as it is written *)
ValidateFileCaseSensitive(f) ==
    IF ~f.exists THEN Raised(Exc("FileError", "File not found"))
    ELSE IF f.suffix \notin SupportedExtensions
         THEN Raised(Exc("FileError", "Unsupported file format"))
         ELSE Returned(f)

ValidateFile(f) ==
    IF ~f.exists THEN Raised(Exc("FileError", "File not found"))
    ELSE IF Lower(f.suffix) \notin SupportedExtensions
         THEN Raised(Exc("FileError", "Unsupported file format"))
         ELSE Returned(f)

(* the suffixes of the paths validate_file is given: the supported ones,   *)
(* two of them in other letter case, an unsupported one and none           *)
Suffixes == SupportedExtensions \cup {".CSV", ".Xlsx", ".txt", ""}

(* the files read_file is given, of up to MaxRows rows *)
AllFiles == [exists : BOOLEAN, suffix : Suffixes, parses : BOOLEAN, rows : 0..MaxRows]

(* an except clause that wraps whatever was raised *)
ReadFileExceptWrapsAll(e) ==
    Raised([type |-> "FileError", msg |-> <<"Error reading file">> \o e.msg])

(* read_file's `except Exception as e`: a FileError is raised again as it  *)
(* is, anything else becomes a FileError that carries str(e)               *)
ReadFileExcept(e) ==
    IF e.type = "FileError" THEN Raised(e)
    ELSE Raised([type |-> "FileError", msg |-> <<"Error reading file">> \o e.msg])

(* read_file's try block: validation, the pandas reader chosen by the      *)
(* lower-cased suffix, the test of df.empty                                *)
ReadFileTry(f) ==
    LET v == ValidateFile(f) IN
    IF ~v.ok THEN v
    ELSE IF ~f.parses THEN Raised(Exc("ParserError", "parse error"))
         ELSE IF f.rows = 0 THEN Raised(Exc("FileError", "File is empty"))
              ELSE Returned(Table(f.rows))

ReadFile(f) ==
    LET r == ReadFileTry(f) IN
    IF r.ok THEN r ELSE ReadFileExcept(r.exc)

(* ---------------------------- the LLM client (environment) ------------- *)
(* what client.chat.completions.create may raise *)
ClientErrors == {Exc("ExtractionError", "llm error"), Exc("Exception", "llm error")}

(* what one per-row completion call may do: return n well-formed items,    *)
(* return items one of which the generated model rejects, or raise         *)
CompletionResults ==
    [kind : {"items"}, n : 0..MaxItems, bad : {0}, e : {NoExc}]
        \cup {r \in [kind : {"invalid"}, n : 1..MaxItems, bad : 1..MaxItems, e : {NoExc}] :
                  r.bad <= r.n}
        \cup [kind : {"raise"}, n : {0}, bad : {0}, e : ClientErrors]

(* the items the completion returns for a text, in the order returned *)
Items(text, n) == [k \in 1..n |-> [src |-> text, k |-> k]]

(* ---------------------------- Extractor: per-row extraction ------------ *)
(* a validation that keeps the items in front of the rejected one *)
ModelValidateUntilRejected(result, bad) ==
    IF bad = 0 THEN Returned(result) ELSE Returned(SubSeq(result, 1, bad - 1))

(* validated = [extraction_model.model_validate(item) for item in result]: *)
(* the items are validated in order, the item at position bad (0: none) is *)
(* rejected with a ValidationError, and the list exists only when the      *)
(* comprehension has ended                                                 *)
RECURSIVE ModelValidateFrom(_, _, _, _)
ModelValidateFrom(result, bad, i, validated) ==
    IF i > Len(result) THEN Returned(validated)
    ELSE IF i = bad THEN Raised(Exc("ValidationError", "invalid item"))
         ELSE ModelValidateFrom(result, bad, i + 1, Append(validated, result[i]))

ModelValidateAll(result, bad) == ModelValidateFrom(result, bad, 1, <<>>)

(* _extract_without_retry: the completion call, then model_validate of     *)
(* every item in a list comprehension                                      *)
ExtractWithoutRetry(text, res) ==
    IF res.kind = "raise" THEN Raised(res.e)
    ELSE ModelValidateAll(Items(text, res.n), res.bad)

(* a retry condition that holds for every exception *)
RetryIfAnyException(e) == TRUE

(* create_retry_decorator: retry=retry_if_exception_type(ExtractionError) *)
RetryIf(e) == e.type = "ExtractionError"

(* create_retry_decorator: stop=stop_after_attempt(self.max_retries) *)
StopAfterAttempt(attempt_number, retries) == attempt_number >= retries

(* a wait that doubles without a ceiling *)
WaitExponentialUncapped(multiplier, min, max, attempt_number) ==
    Max(Max(0, min), multiplier * 2 ^ (attempt_number - 1))

(* create_retry_decorator: wait=wait_exponential(multiplier=self.min_wait, *)
(* min=self.min_wait, max=self.max_wait), the seconds slept after failed   *)
(* attempt attempt_number: multiplier * 2^(attempt_number - 1), at most    *)
(* max and at least max(0, min)                                            *)
WaitExponential(multiplier, min, max, attempt_number) ==
    Max(Max(0, min), Min(multiplier * 2 ^ (attempt_number - 1), max))

(* what the retrying call does after attempt number a raised e:            *)
(* "again", or the exception that leaves the retry loop                    *)
RetryOutcome(a, retries, e) ==
    IF ~RetryIf(e) THEN Raised(e)
    ELSE IF StopAfterAttempt(a, retries) THEN Raised(Exc("RetryError", "RetryError"))
         ELSE Returned("again")

(* _extract_with_model: the handle_errors wrapper around the retrying call, *)
(* as the worker's try block sees it: the wrapper's exception, or the      *)
(* TypeError of using a returned default as the list of items              *)
ExtractWithModelRaises(e) ==
    LET w == HandleErrors("Data extraction failed after all retries", "ExtractionError",
                          None, e)
    IN IF w.ok THEN Exc("TypeError", "not iterable") ELSE w.exc

(* ---------------------------- Extractor: result containers ------------- *)
NoStatus == [kind |-> "None", msg |-> <<>>]
Success == [kind |-> "Success", msg |-> <<>>]
Failed(e) == [kind |-> "Failed", msg |-> e.msg]

(* a result_df that is the caller's table itself *)
ResultObjectIsInput == "df"

(* _initialize_results: result_df = df.copy() is a new DataFrame object *)
ResultObject == "copy"

(* _initialize_results: df.copy() with the extraction columns set to None *)
InitializeResults(table) ==
    [r \in DOMAIN table |-> [cells |-> table[r], fields |-> <<>>, status |-> NoStatus]]

(* _update_dataframe: every item's fields written at row_idx, then the status *)
UpdateDataframe(rdf, items, row_idx) ==
    [rdf EXCEPT ![row_idx] = [@ EXCEPT !.fields = items, !.status = Success]]

(* _update_dataframe when a cell write raises at the last item: the items  *)
(* before it are already written, the status is not                        *)
UpdateDataframePartial(rdf, items, row_idx) ==
    [rdf EXCEPT ![row_idx] = [@ EXCEPT !.fields = SubSeq(items, 1, Len(items) - 1)]]

(* _handle_extraction_error: the ledger record *)
FailedRow(row_idx, row_text, e) == [index |-> row_idx, text |-> row_text, error |-> e.msg]

(* an append that loses the records appended before it *)
HandleExtractionErrorLedgerLost(ledger, row_idx, row_text, e) ==
    <<FailedRow(row_idx, row_text, e)>>

HandleExtractionErrorLedger(ledger, row_idx, row_text, e) ==
    Append(ledger, FailedRow(row_idx, row_text, e))

(* an error handler that leaves the status cell as it is *)
HandleExtractionErrorStatusUnset(rdf, row_idx, e) == rdf

HandleExtractionErrorStatus(rdf, row_idx, e) ==
    [rdf EXCEPT ![row_idx] = [@ EXCEPT !.status = Failed(e)]]

(* ---------------------------- Extractor: batching ---------------------- *)
(* _process_batch: threading.Semaphore(self.max_threads) *)
NewSemaphore(threads) == threads

(* a semaphore whose acquire never blocks *)
CanAcquireUnguarded(sem) == TRUE

(* `with semaphore`: acquire blocks while the counter is zero *)
CanAcquire(sem) == sem > 0

(* a `with semaphore` that keeps the permit when it is left *)
ReleaseNothing(sem) == sem

(* `with semaphore`: the block is left, by return or by exception, and the *)
(* permit is given back                                                    *)
Release(sem) == sem + 1

(* _process_data: batch_end = min(batch_start + self.batch_size, len(df)) *)
BatchEnd(start, size, len) == Min(start + size, len)

(* an extend that puts a row's first item in front of the list and the     *)
(* others at its end                                                       *)
ExtendApart(list, items) ==
    IF items = <<>> THEN list ELSE <<Head(items)>> \o list \o Tail(items)

(* an extend that puts the items in front of the list *)
ExtendAtFront(list, items) == items \o list

(* extract_worker: result_list.extend(items) *)
Extend(list, items) == list \o items

(* ---------------------------- Extractor: stages 1-4 -------------------- *)
Stages == <<"query_analysis", "query_refinement", "guide_generation", "schema_generation">>

(* the handle_errors decorator of the stage's own method; the guide method *)
(* has none                                                                *)
StageWrapper(stage) ==
    CASE stage = "query_analysis" -> <<"Query analysis failed">>
      [] stage = "query_refinement" -> <<"Query refinement failed">>
      [] stage = "schema_generation" -> <<"Schema generation failed">>
      [] OTHER -> <<>>

(* the handle_errors decorators between a stage and the caller of the      *)
(* public operation: _initialize_extraction, _process_data, then the       *)
(* operation's own (extract_async has none, extract_batch adds its own to  *)
(* extract's)                                                              *)
OuterWrappers(operation) ==
    CASE operation = "extract" ->
           <<"Failed to initialize extraction", "Data processing failed", "Batch extraction failed">>
      [] operation = "extract_async" ->
           <<"Failed to initialize extraction", "Data processing failed">>
      [] operation = "extract_batch" ->
           <<"Failed to initialize extraction", "Data processing failed", "Batch extraction failed",
             "Batch extraction failed">>
      [] OTHER -> <<"Schema generation failed">>

(* the handle_errors decorators around the call of FileReader.read_file *)
ReadWrappers(operation) ==
    CASE operation = "extract" -> <<"Batch extraction failed">>
      [] operation = "extract_batch" -> <<"Batch extraction failed", "Batch extraction failed">>
      [] OTHER -> <<>>

(* the decorators an exception raised at a step passes through *)
WrappersAt(operation, step) ==
    IF step = "read_file" THEN ReadWrappers(operation)
    ELSE StageWrapper(step) \o OuterWrappers(operation)

(* an except clause that lets the exception pass as it is *)
AsyncExceptReraises(r) == r

(* an except clause that swallows the exception *)
AsyncExceptSwallows(r) == Returned(None)

(* extract_async: `except Exception as e: raise ExtractionError(f"Async    *)
(* extraction failed: {str(e)}")` around the whole body                    *)
AsyncExcept(r) ==
    IF r.ok THEN r
    ELSE Raised([type |-> "ExtractionError", msg |-> <<"Async extraction failed">> \o r.exc.msg])

(* what the caller of the public operation gets when a step raised e *)
Reported(operation, step, e) ==
    LET r == Propagate(e, WrappersAt(operation, step)) IN
    IF operation = "extract_async" THEN AsyncExcept(r) ELSE r

(* the other one of extract and extract_async *)
TwinOf(operation) ==
    CASE operation = "extract" -> "extract_async"
      [] operation = "extract_async" -> "extract"
      [] OTHER -> operation

(* ---------------------------- keyword options for file reading --------- *)
KwargsValues == {None, "{}", "{'sep': ';'}"}

(* bool(v) of None, an empty and a non-empty dict *)
Truthy(v) == v \notin {None, "{}"}

(* extract: file_kwargs = file_kwargs or {} *)
OrEmpty(v) == IF Truthy(v) THEN v ELSE "{}"

(* ---------------------------- Extractor.extract_batch ------------------ *)
Queries == {"q1", "q2"}

(* the lists of at most n queries *)
QueryLists(n) == UNION {[1..k -> Queries] : k \in 0..n}

(* a loop that takes the queries from the end of the list *)
QueryAtFromEnd(qs, n) == qs[Len(qs) + 1 - n]

(* `for query in queries`: the n-th query *)
QueryAt(qs, n) == qs[n]

(* self.extract(data, query, file_kwargs): the parameters of extract are   *)
(* (data, query, return_df, expand_nested, file_kwargs), so the third      *)
(* positional argument is bound to return_df and file_kwargs keeps its     *)
(* default                                                                 *)
ExtractBatchArguments(d, query, kwargs) ==
    [data |-> d, query |-> query, return_df |-> Truthy(kwargs), file_kwargs |-> None]

(* results[query] = (result_df, failed_df) *)
StoreResult(mapping, query, pair) ==
    [q \in DOMAIN mapping \cup {query} |-> IF q = query THEN pair ELSE mapping[q]]

(* a statement order that goes from refinement straight to the schema *)
AfterStageSkippingGuide(stage) ==
    CASE stage = "query_analysis" -> "refine"
      [] stage = "query_refinement" -> "schema"
      [] stage = "guide_generation" -> "schema"
      [] stage = "schema_generation" -> "build"

(* a statement order that asks for the schema before the guide *)
AfterStageSchemaFirst(stage) ==
    CASE stage = "query_analysis" -> "refine"
      [] stage = "query_refinement" -> "schema"
      [] stage = "schema_generation" -> "guide"
      [] stage = "guide_generation" -> "build"

(* where the calling thread goes when a stage's method has returned: the   *)
(* statement order of _initialize_extraction and of get_schema             *)
AfterStage(stage) ==
    CASE stage = "query_analysis" -> "refine"
      [] stage = "query_refinement" -> "guide"
      [] stage = "guide_generation" -> "schema"
      [] stage = "schema_generation" -> "build"

(* a sample taken from the first column when the named one is missing *)
SampleTextOfSomeColumn(table, column) ==
    IF Len(table) = 0 THEN Raised(Exc("IndexError", "out of bounds"))
    ELSE Returned(table[1][IF column \in Columns THEN column ELSE "text"])

(* _initialize_extraction: sample_text = df[target_column].iloc[0] *)
SampleText(table, column) ==
    IF column \notin Columns THEN Raised(Exc("KeyError", column))
    ELSE IF Len(table) = 0 THEN Raised(Exc("IndexError", "out of bounds"))
         ELSE Returned(table[1][column])

(* ---------------------------- scripts/generate_changelog.py ------------ *)
(* the versions of the generated changelog, as the parts of "1.10.0"       *)
(* around the dots, oldest first                                           *)
Versions == << <<"1", "2", "0">>, <<"1", "9", "0">>, <<"1", "10", "0">>, <<"2", "0", "0">> >>

VersionText(version) == version[1] \o "." \o version[2] \o "." \o version[3]

(* a key that orders the parts as text, "10" before "2" and "9" *)
IntAsText(part) ==
    CASE part = "0" -> 0 [] part = "1" -> 1 [] part = "10" -> 2 [] part = "2" -> 3
      [] part = "9" -> 4

(* int(p) for p in version.split(".") *)
IntOf(part) ==
    CASE part = "0" -> 0 [] part = "1" -> 1 [] part = "2" -> 2 [] part = "9" -> 9
      [] part = "10" -> 10

(* key=lambda x: [int(p) for p in x[0].split(".")] *)
VersionKey(version) == [i \in 1..3 |-> IntOf(version[i])]

(* the release dates, and a date string as the numbers that order it the   *)
(* way sorted() orders the strings                                         *)
Dates == {"2024-02-01", "2024-03-01"}
DateKey(date) == IF date = "2024-02-01" THEN <<2024, 2, 1>> ELSE <<2024, 3, 1>>

(* a < b for two lists of numbers of one length *)
ListLess(a, b) ==
    \E i \in 1..Len(a) : a[i] < b[i] /\ \A j \in 1..(i - 1) : a[j] = b[j]

(* sorted(seq, key=..., reverse=...), keys[i] being the key of seq[i]: a   *)
(* stable sort, equal keys keep their order also when reversed             *)
Sorted(seq, keys, reverse) ==
    LET n == Len(seq)
        Before(i, j) == IF reverse THEN ListLess(keys[j], keys[i]) ELSE ListLess(keys[i], keys[j])
        rank(i) == Cardinality({j \in 1..n : Before(j, i) \/ (~Before(i, j) /\ j < i)})
    IN [r \in 1..n |-> seq[CHOOSE i \in 1..n : rank(i) = r - 1]]

(* a line of a version's body: the text before the first "- " (all of it   *)
(* when there is none), whether "- " occurs, the text after it in pieces,  *)
(* and the backtick-quoted tokens that follow                              *)
Line(lead, dash, words, ticks) == [lead |-> lead, dash |-> dash, words |-> words, ticks |-> ticks]

(* [a-f0-9]+ on the tokens of the model *)
IsHex(token) == token \in {"aaa111", "bbb222", "ccc333", "ddd444", "eee555", "df", "abc"}

(* a pattern that takes every line with "- " for a commit *)
MatchesAnyDash(line) == line.dash

(* re.search(r"- .+`[a-f0-9]+`", line): the pattern is not anchored at the *)
(* start of the line                                                       *)
MatchesCommit(line) == line.dash /\ \E i \in 1..Len(line.ticks) : IsHex(line.ticks[i])

(* re.findall(r"- .+`[a-f0-9]+`.*", changes): the matching lines, each     *)
(* from its "- " to its end                                                *)
RECURSIVE CommitLines(_)
CommitLines(changes) ==
    IF changes = <<>> THEN <<>>
    ELSE (IF MatchesCommit(Head(changes))
          THEN <<[words |-> Head(changes).words, ticks |-> Head(changes).ticks]>>
          ELSE <<>>) \o CommitLines(Tail(changes))

RECURSIVE Concat(_)
Concat(pieces) == IF pieces = <<>> THEN "" ELSE Head(pieces) \o Concat(Tail(pieces))

(* the quoted tokens as text; the model's strings have ' for the backtick *)
RECURSIVE TickText(_)
TickText(ticks) ==
    IF ticks = <<>> THEN ""
    ELSE "'" \o Head(ticks) \o "'" \o (IF Len(ticks) > 1 THEN " " ELSE "") \o TickText(Tail(ticks))

(* the text of a commit line *)
CommitText(commit) == "- " \o Concat(commit.words) \o TickText(commit.ticks)

(* re.sub(r"### ", "", commit) *)
FixedCommit(commit) ==
    [words |-> SelectSeq(commit.words, LAMBDA w : w # "### "), ticks |-> commit.ticks]

(* re.search(r"`([a-f0-9]+)`", commit).group(1): the first such token *)
HashKey(commit) ==
    LET i == CHOOSE i \in 1..Len(commit.ticks) :
                 IsHex(commit.ticks[i]) /\ \A j \in 1..(i - 1) : ~IsHex(commit.ticks[j])
    IN commit.ticks[i]

(* the loop that removes duplicates while preserving order *)
RECURSIVE UniqueCommits(_, _)
UniqueCommits(all_commits, seen) ==
    IF all_commits = <<>> THEN <<>>
    ELSE LET commit == Head(all_commits) IN
         IF \E i \in 1..Len(commit.ticks) : IsHex(commit.ticks[i])
         THEN IF HashKey(commit) \in seen
              THEN UniqueCommits(Tail(all_commits), seen)
              ELSE <<commit>> \o UniqueCommits(Tail(all_commits), seen \cup {HashKey(commit)})
         ELSE <<commit>> \o UniqueCommits(Tail(all_commits), seen)

(* the loop over the version blocks from block i on: a block with a commit *)
(* line is appended to the list of its date, the dates in first-seen order *)
RECURSIVE GroupVersions(_, _, _)
GroupVersions(versions, i, groups) ==
    IF i > Len(versions) THEN groups
    ELSE LET b == versions[i]
             has_commits == \E k \in 1..Len(b.changes) : MatchesCommit(b.changes[k])
             entry == [version |-> b.version, commits |-> CommitLines(b.changes)]
         IN IF ~has_commits THEN GroupVersions(versions, i + 1, groups)
            ELSE IF \E g \in 1..Len(groups) : groups[g].date = b.date
                 THEN LET g == CHOOSE g \in 1..Len(groups) : groups[g].date = b.date IN
                      GroupVersions(versions, i + 1,
                                    [groups EXCEPT ![g].versions = Append(@, entry)])
                 ELSE GroupVersions(versions, i + 1,
                                    Append(groups, [date |-> b.date, versions |-> <<entry>>]))

(* the heading of a date group: one version with the link its own heading  *)
(* had, or the range with a compare link from the version before the       *)
(* lowest among all version headings of the file                           *)
VersionHeader(text, sorted_versions) ==
    LET highest_version == sorted_versions[1].version
        lowest_version == sorted_versions[Len(sorted_versions)].version
        found == [i \in 1..Len(text.blocks) |-> text.blocks[i].version]
        all_versions == Sorted(found, [i \in 1..Len(found) |-> VersionKey(found[i])], FALSE)
        lowest_version_index ==
            CHOOSE i \in 1..Len(all_versions) :
                all_versions[i] = lowest_version
                    /\ \A j \in 1..(i - 1) : all_versions[j] # lowest_version
        own == CHOOSE i \in 1..Len(text.blocks) : text.blocks[i].version = highest_version
    IN IF highest_version # lowest_version
       THEN "### [" \o VersionText(lowest_version) \o " - " \o VersionText(highest_version) \o "]"
              \o (IF lowest_version_index > 1
                  THEN "(https://github.com/Blacksuan19/structx/compare/"
                         \o VersionText(all_versions[lowest_version_index - 1]) \o "..."
                         \o VersionText(highest_version) \o ")"
                  ELSE "")
       ELSE "### [" \o VersionText(highest_version) \o "]"
              \o (IF text.blocks[own].link # "" THEN "(" \o text.blocks[own].link \o ")"
                  ELSE "")

RECURSIVE AllCommits(_)
AllCommits(sorted_versions) ==
    IF sorted_versions = <<>> THEN <<>>
    ELSE [k \in 1..Len(Head(sorted_versions).commits) |->
              FixedCommit(Head(sorted_versions).commits[k])]
           \o AllCommits(Tail(sorted_versions))

(* what one date group adds to new_content, as lines *)
RenderGroup(text, group) ==
    LET sorted_versions ==
            Sorted(group.versions,
                   [i \in 1..Len(group.versions) |-> VersionKey(group.versions[i].version)],
                   TRUE)
        unique_commits == UniqueCommits(AllCommits(sorted_versions), {})
    IN <<"## " \o group.date, VersionHeader(text, sorted_versions)>>
         \o [k \in 1..Len(unique_commits) |-> CommitText(unique_commits[k])]

RECURSIVE RenderGroups(_, _)
RenderGroups(text, groups) ==
    IF groups = <<>> THEN <<>>
    ELSE RenderGroup(text, Head(groups)) \o RenderGroups(text, Tail(groups))

(* new_content, as its lines: the header (everything before the first      *)
(* version heading, nothing when there is no version heading), the         *)
(* unreleased section unless the header holds it, then the date groups,    *)
(* latest date first                                                       *)
NewContent(text, groups) ==
    LET unreleased == IF text.unreleased THEN <<"## [Unreleased]">> ELSE <<>>
        header == IF text.blocks # <<>> THEN <<"# Changelog">> \o unreleased ELSE <<>>
        by_date == Sorted(groups, [i \in 1..Len(groups) |-> DateKey(groups[i].date)], TRUE)
    IN header
         \o (IF unreleased # <<>> /\ \A k \in 1..Len(header) : header[k] # "## [Unreleased]"
             THEN unreleased ELSE <<>>)
         \o RenderGroups(text, by_date)

(* the lines a version's body is made of: a commit, a second one, two      *)
(* commits whose subject quotes `df`, a commit with a "### " inside, a     *)
(* merged pull request (`#12` is no hash), a sentence, and a sentence that *)
(* holds "- " and a quoted token                                           *)
CommitA == Line("", TRUE, <<"add reader ">>, <<"aaa111">>)
CommitB == Line("", TRUE, <<"fix bug ">>, <<"bbb222">>)
CommitC == Line("", TRUE, <<"fix ">>, <<"df", "ccc333">>)
CommitD == Line("", TRUE, <<"speed up ">>, <<"df", "ddd444">>)
CommitE == Line("", TRUE, <<"### ", "docs ">>, <<"eee555">>)
Merged == Line("", TRUE, <<"merge ">>, <<"#12">>)
Sentence == Line("Initial release", FALSE, <<>>, <<>>)
Aside == Line("Renamed ", TRUE, <<"see ">>, <<"abc">>)

Bodies ==
    { <<Sentence>>, <<Merged>>, <<CommitA>>, <<CommitA, CommitB>>, <<CommitB, CommitA>>,
      <<CommitC>>, <<CommitD, CommitB>>, <<CommitE, Sentence>>, <<Aside>> }

(* the indices of a set of numbers, largest first *)
RECURSIVE Descending(_)
Descending(S) ==
    IF S = {} THEN <<>>
    ELSE LET m == CHOOSE m \in S : \A x \in S : x <= m IN <<m>> \o Descending(S \ {m})

(* the changelog auto-changelog generates: the title, perhaps an           *)
(* unreleased section, then at most n version blocks, newest first, each   *)
(* "## [version](link) - date" and a body; the oldest version has no       *)
(* compare link                                                            *)
Changelogs(n) ==
    UNION { { [unreleased |-> u,
               blocks |-> [k \in 1..Cardinality(S) |->
                             LET v == Descending(S)[k] IN
                             [version |-> Versions[v],
                              link |-> IF v = 1 THEN "" ELSE "compare/" \o VersionText(Versions[v]),
                              date |-> f[v][1],
                              changes |-> f[v][2]]]]
              : f \in [S -> Dates \X Bodies], u \in BOOLEAN }
            : S \in {T \in SUBSET (1..Len(Versions)) : Cardinality(T) <= n} }

(* the file on disk: absent, as generated, or as rewritten (its lines) *)
NoText == [unreleased |-> FALSE, blocks |-> <<>>]
Missing == [exists |-> FALSE, form |-> "none", generated |-> NoText, rewritten |-> <<>>]
Generated(text) == [exists |-> TRUE, form |-> "generated", generated |-> text, rewritten |-> <<>>]
Rewritten(lines) == [exists |-> TRUE, form |-> "rewritten", generated |-> NoText, rewritten |-> lines]

(* a script that writes the file at every step *)
FileAfterEveryStep(step, file, lines) == Rewritten(lines)

(* the file after a step of process_changelog: only write_text, the last   *)
(* step, changes it                                                        *)
FileAfter(step, file, lines) == IF step = "write" THEN Rewritten(lines) ELSE file

(* ---------------------------- state ------------------------------------ *)
VARIABLES
    op,           \* the public operation called
    data,         \* its data argument
    return_df,    \* extract's return_df parameter, as `if return_df` sees it
    file_kwargs,  \* extract's file_kwargs parameter
    read_kwargs,  \* history: the options FileReader.read_file was called with
    batch_size,   \* self.batch_size
    max_threads,  \* self.max_threads
    max_retries,  \* self.max_retries
    min_wait,     \* self.min_wait
    max_wait,     \* self.max_wait
    retry_attempt, \* the retry decorator's attempt_number at its last failed attempt
    wait,         \* the seconds it slept after that attempt
    prev_wait,    \* history: the seconds it slept after the attempt before
    queries,      \* extract_batch's queries argument
    batch_file_kwargs, \* extract_batch's file_kwargs argument
    query_no,     \* extract_batch: how many queries its loop has taken
    batch_results, \* extract_batch's results dict
    runs,         \* history: the queries extract was called with, in order
    pairs,        \* history: the pair each of those calls returned
    other_semaphore, \* a second, concurrent call on the Extractor: its batch's semaphore
    other_wstate, \* the worker of the second call's one row
    pc,           \* where the calling thread is
    df,           \* the input table
    target,       \* query_analysis.target_column
    calls,        \* the stage 1-4 completion calls issued so far, in order
    modelBuilt,   \* ExtractionModel exists
    exc,          \* the exception the call raised to its caller
    twin_exc,     \* history: what the other of extract/extract_async raises for it
    failure,      \* history: the step of the calling thread that raised, and what
    batch_start,  \* _process_data's loop variable
    started,      \* threads of the current batch started so far
    semaphore,    \* the current batch's semaphore counter
    wstate,       \* per row: "new", "waiting", "running", "succeeded", "failed"
    wargs,        \* per row: the arguments its thread was started with
    attempts,     \* per row: completion calls issued for it
    witems,       \* history, per row: the items _extract_with_model returned
    werrs,        \* history, per row: what its attempts raised, in order
    wrejected,    \* history, per row: a completion returned an item the model rejects
    result_df,    \* the table that receives the extracted columns
    result_obj,   \* the DataFrame object result_df names: "copy", "df", or "none"
    result_list,  \* the flat list
    failed_rows,  \* the failed ledger
    applied,      \* the function of the package called by itself, "none" if none was
    arguments,    \* the arguments it is called with
    returned,     \* what it returned or raised
    changelog,    \* scripts/generate_changelog.py: the text of the changelog file on disk
    cl_pc,        \* where process_changelog is
    content,      \* its local `content`
    date_groups,  \* its local `date_groups`
    new_content,  \* its local `new_content`
    exit_status   \* the exit status of the script's process, "running" until it ends

vars ==
    <<op, data, return_df, file_kwargs, read_kwargs, batch_size, max_threads, max_retries,
      min_wait, max_wait, retry_attempt, wait, prev_wait, queries, batch_file_kwargs,
      query_no, batch_results, runs, pairs, other_semaphore, other_wstate, pc, df, target, calls, modelBuilt,
      exc, twin_exc, failure, batch_start, started, semaphore, wstate, wargs, attempts,
      witems, werrs, wrejected, result_df, result_obj, result_list, failed_rows, applied, arguments, returned,
      changelog, cl_pc, content, date_groups, new_content, exit_status>>

utility == <<applied, arguments, returned>>
script == <<changelog, cl_pc, content, date_groups, new_content, exit_status>>
apart == <<utility, script>>
backoff == <<min_wait, max_wait, retry_attempt, wait, prev_wait>>
batch == <<queries, batch_file_kwargs, query_no, batch_results, runs, pairs>>
other == <<other_semaphore, other_wstate>>
extractor == <<op, data, batch_size, max_threads, max_retries, backoff, apart>>
call == <<extractor, return_df, file_kwargs, batch, other>>
params == <<call, read_kwargs>>
raised == <<exc, twin_exc, failure>>
workers == <<wstate, wargs, attempts, witems, werrs, wrejected>>
results == <<result_df, result_obj, result_list, failed_rows>>

NoFile == [exists |-> FALSE, suffix |-> "", parses |-> FALSE, rows |-> 0]
NoArgs == [row_text |-> <<>>, row_idx |-> 0]
NoFailure == [step |-> "none", e |-> NoExc]

DataArguments ==
    [kind : {"table"}, rows : 0..MaxRows, file : {NoFile}]
        \cup [kind : {"path"}, rows : {0}, file : Files]

(* the columns _initialize_results adds: the model's fields and the status *)
ExtractionColumns == {"fields", "extraction_status"}

(* a table without extraction columns, in the shape of one that has them *)
WithoutExtraction(table) ==
    [columns |-> Columns,
     rows |-> [r \in DOMAIN table |-> [cells |-> table[r], fields |-> <<>>, status |-> NoStatus]]]

(* the caller's DataFrame as it is now.  extract binds df to the object    *)
(* itself (`df = data`) and only reads through df; what is written through *)
(* result_df reaches the caller's table if result_df names the same object *)
CallerTable ==
    IF result_obj = "df"
    THEN [columns |-> Columns \cup ExtractionColumns, rows |-> result_df]
    ELSE WithoutExtraction(IF pc = "read" THEN Table(data.rows) ELSE df)

(* nothing has run yet *)
Fresh ==
    /\ read_kwargs = "unread"
    /\ twin_exc = NoExc
    /\ df = <<>>
    /\ target = NoColumn
    /\ calls = <<>>
    /\ modelBuilt = FALSE
    /\ exc = NoExc
    /\ failure = NoFailure
    /\ batch_start = 0
    /\ started = 0
    /\ semaphore = 0
    /\ wstate = [p \in 1..MaxRows |-> "new"]
    /\ wargs = [p \in 1..MaxRows |-> NoArgs]
    /\ attempts = [p \in 1..MaxRows |-> 0]
    /\ witems = [p \in 1..MaxRows |-> <<>>]
    /\ werrs = [p \in 1..MaxRows |-> <<>>]
    /\ wrejected = [p \in 1..MaxRows |-> FALSE]
    /\ result_df = <<>>
    /\ result_obj = "none"
    /\ result_list = <<>>
    /\ failed_rows = <<>>

NoOutcome == [ok |-> FALSE, value |-> <<>>, exc |-> NoExc]

(* no function of the package is called by itself *)
NoUtility ==
    /\ applied = "none"
    /\ arguments = <<>>
    /\ returned = NoOutcome

(* the changelog script does not run *)
NoScript ==
    /\ changelog = [exists |-> FALSE, form |-> "none", generated |-> [unreleased |-> FALSE, blocks |-> <<>>], rewritten |-> <<>>]
    /\ cl_pc = "none"
    /\ content = [unreleased |-> FALSE, blocks |-> <<>>]
    /\ date_groups = <<>>
    /\ new_content = <<>>
    /\ exit_status = "none"

(* the retry decorator has not slept; __init__'s default waits *)
NoBackoff ==
    /\ min_wait = 1
    /\ max_wait = 10
    /\ retry_attempt = 0
    /\ wait = 0
    /\ prev_wait = 0

(* the call is not an extract_batch call *)
NoBatch ==
    /\ queries = <<>>
    /\ batch_file_kwargs = None
    /\ query_no = 0
    /\ batch_results = <<>>
    /\ runs = <<>>
    /\ pairs = <<>>

(* no second call runs beside this one *)
NoOther ==
    /\ other_semaphore = 0
    /\ other_wstate = "none"

Init ==
    /\ op \in {"extract", "get_schema"}
    /\ IF op = "extract"
       THEN data \in DataArguments /\ return_df \in BOOLEAN
       ELSE data = [kind |-> "sample", rows |-> 0, file |-> NoFile] /\ return_df = FALSE
    /\ file_kwargs \in IF data.kind = "path" THEN KwargsValues ELSE {None}
    /\ batch_size \in 1..MaxBatch
    /\ max_threads \in 1..MaxThreads
    /\ max_retries \in 1..MaxRetries
    /\ pc = IF op = "extract" THEN "read" ELSE "refine"
    /\ NoBackoff
    /\ NoBatch
    /\ NoOther
    /\ NoUtility
    /\ NoScript
    /\ Fresh

(* the step raised e: the exception reaches the caller of the public       *)
(* operation through the decorators and handlers around the step, or one   *)
(* of them returned a default and the operation returns                    *)
Raise(step, e) ==
    LET r == Reported(op, step, e) IN
    /\ failure' = [step |-> step, e |-> e]
    /\ twin_exc' = Reported(TwinOf(op), step, e).exc
    /\ IF r.ok
       THEN pc' = "returned" /\ exc' = exc
       ELSE pc' = "raised" /\ exc' = r.exc

(* extract and extract_async: the isinstance test and                      *)
(* FileReader.read_file(data, **(file_kwargs or {}))                       *)
ReadData ==
    /\ pc = "read"
    /\ IF data.kind = "table"
       THEN /\ df' = Table(data.rows)
            /\ pc' = "analyze"
            /\ UNCHANGED <<read_kwargs, raised>>
       ELSE LET r == ReadFile(data.file) IN
            /\ read_kwargs' = OrEmpty(file_kwargs)
            /\ IF r.ok
               THEN df' = r.value /\ pc' = "analyze" /\ UNCHANGED raised
               ELSE df' = df /\ Raise("read_file", r.exc)
    /\ UNCHANGED <<call, target, calls, modelBuilt, batch_start, started, semaphore,
                   workers, results>>

(* one stage's method body: the user prompt is built from its template    *)
(* (Template.substitute raises KeyError for a placeholder it is not given) *)
(* and the completion call is made; the step returns, or raises            *)
StageCall(stage) ==
    /\ calls' = Append(calls, stage)
    /\ \/ pc' = AfterStage(stage) /\ UNCHANGED raised
       \/ \E e \in ClientErrors : Raise(stage, e)

AnalyzeQuery ==
    /\ pc = "analyze"
    /\ StageCall("query_analysis")
    /\ IF failure' = NoFailure THEN target' \in Columns \cup {NoColumn} ELSE target' = target
    /\ UNCHANGED <<params, df, modelBuilt, batch_start, started, semaphore, workers, results>>

RefineQuery ==
    /\ pc = "refine"
    /\ StageCall("query_refinement")
    /\ UNCHANGED <<params, df, target, modelBuilt, batch_start, started, semaphore,
                   workers, results>>

GenerateGuide ==
    /\ pc = "guide"
    /\ IF op # "get_schema" /\ ~SampleText(df, target).ok
       THEN calls' = calls /\ Raise("sample_text", SampleText(df, target).exc)
       ELSE StageCall("guide_generation")
    /\ UNCHANGED <<params, df, target, modelBuilt, batch_start, started, semaphore,
                   workers, results>>

GenerateSchema ==
    /\ pc = "schema"
    /\ StageCall("schema_generation")
    /\ UNCHANGED <<params, df, target, modelBuilt, batch_start, started, semaphore,
                   workers, results>>

(* ModelGenerator.from_extraction_request and the schema dump; get_schema  *)
(* returns the schema here                                                 *)
BuildModel ==
    /\ pc = "build"
    /\ \/ /\ modelBuilt' = TRUE
          /\ pc' = IF op = "get_schema" THEN "returned" ELSE "results"
          /\ UNCHANGED raised
       \/ /\ modelBuilt' = modelBuilt
          /\ Raise("build_model", Exc("Exception", "unknown field type"))
    /\ UNCHANGED <<params, df, target, calls, batch_start, started, semaphore, workers,
                   results>>

(* _initialize_results and _create_extraction_worker *)
InitResults ==
    /\ pc = "results"
    /\ result_df' = InitializeResults(df)
    /\ result_obj' = ResultObject
    /\ result_list' = <<>>
    /\ failed_rows' = <<>>
    /\ batch_start' = 0
    /\ pc' = "batch"
    /\ UNCHANGED <<params, df, target, calls, modelBuilt, raised, started, semaphore,
                   workers>>

(* ---------------------------- Extractor: the batch loop ---------------- *)
(* a slice that leaves out the first row of the batch *)
BatchRowsWithoutFirst(start) == (start + 2)..BatchEnd(start, batch_size, Len(df))

(* df.iloc[batch_start:batch_end]: the positions of the rows of the batch  *)
(* that starts at start                                                    *)
BatchRows(start) == (start + 1)..BatchEnd(start, batch_size, Len(df))

(* thread arguments that number the rows anew within every batch *)
ThreadArgsBatchPosition(table, column, p) ==
    [row_text |-> table[p][column], row_idx |-> ((p - 1) % batch_size) + 1]

(* the arguments _process_batch gives the thread of the row at position p:  *)
(* args=(row[target_column], idx, semaphore, pbar)                          *)
ThreadArgs(table, column, p) == [row_text |-> table[p][column], row_idx |-> p]

Done(w) == w \in {"succeeded", "failed"}

(* a join loop that does not wait *)
JoinedWithoutWaiting(ws, rows) == TRUE

(* _process_batch: `for thread in threads: thread.join()` has returned *)
Joined(ws, rows) == \A p \in rows : Done(ws[p])

(* a batch loop that stops at the first recorded failure *)
MoreBatchesUntilFailure == batch_start < Len(df) /\ failed_rows = <<>>

(* _process_data: `for batch_start in range(0, len(df), self.batch_size)`  *)
(* has another value to give                                               *)
MoreBatches == batch_start < Len(df)

(* _process_data enters _process_batch for the next slice *)
ProcessBatch ==
    /\ pc = "batch"
    /\ MoreBatches
    /\ semaphore' = NewSemaphore(max_threads)
    /\ started' = 0
    /\ pc' = "dispatch"
    /\ UNCHANGED <<params, df, target, calls, modelBuilt, raised, batch_start, workers,
                   results>>

(* _process_batch: the next row's thread is created and started *)
StartThread ==
    /\ pc = "dispatch"
    /\ LET p == batch_start + started + 1 IN
       /\ p \in BatchRows(batch_start)
       /\ wstate' = [wstate EXCEPT ![p] = "waiting"]
       /\ wargs' = [wargs EXCEPT ![p] = ThreadArgs(df, target, p)]
    /\ started' = started + 1
    /\ UNCHANGED <<params, pc, df, target, calls, modelBuilt, raised, batch_start,
                   semaphore, attempts, witems, werrs, wrejected, results>>

(* _process_batch: every thread of the batch is joined; the loop of        *)
(* _process_data steps to the next slice                                   *)
JoinBatch ==
    /\ pc = "dispatch"
    /\ batch_start + started + 1 \notin BatchRows(batch_start)
    /\ Joined(wstate, BatchRows(batch_start))
    /\ batch_start' = batch_start + batch_size
    /\ pc' = "batch"
    /\ UNCHANGED <<params, df, target, calls, modelBuilt, raised, started, semaphore,
                   workers, results>>

(* _process_data: the loop is over; statistics are logged, the pair is returned *)
Return ==
    /\ pc = "batch"
    /\ ~MoreBatches
    /\ pc' = "returned"
    /\ UNCHANGED <<params, df, target, calls, modelBuilt, raised, batch_start, started,
                   semaphore, workers, results>>

(* ---------------------------- Extractor: extract_worker ---------------- *)
(* `with semaphore:` is entered *)
WorkerAcquire(p) ==
    /\ wstate[p] = "waiting"
    /\ CanAcquire(semaphore)
    /\ semaphore' = semaphore - 1
    /\ wstate' = [wstate EXCEPT ![p] = "running"]
    /\ UNCHANGED <<params, pc, df, target, calls, modelBuilt, raised, batch_start,
                   started, wargs, attempts, witems, werrs, wrejected, results>>

(* the worker leaves `with semaphore:` and ends *)
WorkerExit(p, outcome) ==
    /\ semaphore' = Release(semaphore)
    /\ wstate' = [wstate EXCEPT ![p] = outcome]

(* the except clause: _handle_extraction_error *)
WorkerFails(p, rdf, e) ==
    /\ failed_rows' =
           HandleExtractionErrorLedger(failed_rows, wargs[p].row_idx, wargs[p].row_text, e)
    /\ result_df' = HandleExtractionErrorStatus(rdf, wargs[p].row_idx, e)
    /\ result_list' = result_list
    /\ result_obj' = result_obj
    /\ WorkerExit(p, "failed")

(* the try block after _extract_with_model returned items *)
WorkerSucceeds(p, items) ==
    IF return_df
    THEN \/ /\ result_df' = UpdateDataframe(result_df, items, wargs[p].row_idx)
            /\ UNCHANGED <<result_obj, result_list, failed_rows>>
            /\ WorkerExit(p, "succeeded")
         \/ /\ Len(items) > 0
            /\ WorkerFails(p, UpdateDataframePartial(result_df, items, wargs[p].row_idx),
                           Exc("ValueError", "cell write"))
    ELSE /\ result_list' = Extend(result_list, items)
         /\ UNCHANGED <<result_df, result_obj, failed_rows>>
         /\ WorkerExit(p, "succeeded")

(* one completion call of the row returns or raises: the retry loop goes   *)
(* round, or the worker records its outcome and ends                       *)
WorkerAttempt(p) ==
    /\ wstate[p] = "running"
    /\ attempts' = [attempts EXCEPT ![p] = @ + 1]
    /\ \E res \in CompletionResults :
         LET x == ExtractWithoutRetry(wargs[p].row_text, res)
             o == RetryOutcome(attempts[p] + 1, max_retries, x.exc)
         IN /\ wrejected' = [wrejected EXCEPT ![p] = @ \/ res.bad # 0]
            /\ IF x.ok
               THEN /\ witems' = [witems EXCEPT ![p] = x.value]
                    /\ werrs' = werrs
                    /\ WorkerSucceeds(p, x.value)
               ELSE /\ witems' = witems
                    /\ werrs' = [werrs EXCEPT ![p] = Append(@, x.exc)]
                    /\ IF o.ok
                       THEN UNCHANGED <<semaphore, wstate, results>>
                       ELSE WorkerFails(p, result_df, ExtractWithModelRaises(o.exc))
    /\ UNCHANGED <<params, pc, df, target, calls, modelBuilt, raised, batch_start,
                   started, wargs>>

Next ==
    \/ ReadData
    \/ AnalyzeQuery
    \/ RefineQuery
    \/ GenerateGuide
    \/ GenerateSchema
    \/ BuildModel
    \/ InitResults
    \/ ProcessBatch
    \/ StartThread
    \/ JoinBatch
    \/ Return
    \/ \E p \in 1..MaxRows : WorkerAcquire(p)
    \/ \E p \in 1..MaxRows : WorkerAttempt(p)

Spec == Init /\ [][Next]_vars

(* the steps of the thread that called the operation *)
CallingThread ==
    \/ ReadData
    \/ AnalyzeQuery
    \/ RefineQuery
    \/ GenerateGuide
    \/ GenerateSchema
    \/ BuildModel
    \/ InitResults
    \/ ProcessBatch
    \/ StartThread
    \/ JoinBatch
    \/ Return

(* a thread that can take a step is scheduled, a semaphore with a permit   *)
(* wakes a waiting worker, and every completion call returns or raises     *)
Fairness ==
    /\ WF_vars(CallingThread)
    /\ \A p \in 1..MaxRows : WF_vars(WorkerAcquire(p)) /\ WF_vars(WorkerAttempt(p))

SpecFair == Init /\ [][Next]_vars /\ Fairness

(* ---------------------------- extract beside extract_async ------------- *)
(* one call of extract or of extract_async, awaited; the Extractor retries *)
(* nothing and has MaxThreads threads                                      *)
InitAsync ==
    /\ op \in {"extract", "extract_async"}
    /\ data \in DataArguments
    /\ return_df \in BOOLEAN
    /\ file_kwargs \in IF data.kind = "path" THEN KwargsValues ELSE {None}
    /\ batch_size \in 1..MaxBatch
    /\ max_threads = MaxThreads
    /\ max_retries = 1
    /\ pc = "read"
    /\ NoBackoff
    /\ NoBatch
    /\ NoOther
    /\ NoUtility
    /\ NoScript
    /\ Fresh

SpecAsync == InitAsync /\ [][Next]_vars

(* ---------------------------- extract_batch ---------------------------- *)
(* the per-call state as it is when extract is entered *)
EnterExtract ==
    /\ pc' = "read"
    /\ read_kwargs' = "unread"
    /\ twin_exc' = NoExc
    /\ df' = <<>>
    /\ target' = NoColumn
    /\ calls' = <<>>
    /\ modelBuilt' = FALSE
    /\ batch_start' = 0
    /\ started' = 0
    /\ semaphore' = 0
    /\ wstate' = [p \in 1..MaxRows |-> "new"]
    /\ wargs' = [p \in 1..MaxRows |-> NoArgs]
    /\ attempts' = [p \in 1..MaxRows |-> 0]
    /\ witems' = [p \in 1..MaxRows |-> <<>>]
    /\ werrs' = [p \in 1..MaxRows |-> <<>>]
    /\ wrejected' = [p \in 1..MaxRows |-> FALSE]
    /\ result_df' = <<>>
    /\ result_obj' = "none"
    /\ result_list' = <<>>
    /\ failed_rows' = <<>>

(* the loop of extract_batch takes the next query and calls extract *)
BatchNextQuery ==
    /\ op = "extract_batch"
    /\ pc = "queries"
    /\ query_no < Len(queries)
    /\ LET a == ExtractBatchArguments(data, QueryAt(queries, query_no + 1), batch_file_kwargs)
       IN /\ return_df' = a.return_df
          /\ file_kwargs' = a.file_kwargs
          /\ runs' = Append(runs, a.query)
    /\ query_no' = query_no + 1
    /\ EnterExtract
    /\ UNCHANGED <<extractor, queries, batch_file_kwargs, batch_results, pairs, other, exc,
                   failure>>

(* what extract returns: (result_df if return_df else result_list), failed_df *)
ReturnedPair == [data |-> IF return_df THEN result_df ELSE result_list, failed |-> failed_rows]

(* extract has returned: the pair is stored under the query *)
BatchStore ==
    /\ op = "extract_batch"
    /\ pc = "returned"
    /\ batch_results' = StoreResult(batch_results, Last(runs), ReturnedPair)
    /\ pairs' = Append(pairs, ReturnedPair)
    /\ pc' = "queries"
    /\ UNCHANGED <<extractor, return_df, file_kwargs, read_kwargs, queries, batch_file_kwargs,
                   query_no, runs, other, df, target, calls, modelBuilt, raised, batch_start,
                   started, semaphore, workers, results>>

(* the loop is over: extract_batch returns the dict *)
BatchReturn ==
    /\ op = "extract_batch"
    /\ pc = "queries"
    /\ query_no = Len(queries)
    /\ pc' = "batch_returned"
    /\ UNCHANGED <<call, read_kwargs, df, target, calls, modelBuilt, raised, batch_start,
                   started, semaphore, workers, results>>

(* one extract_batch call on a table of one row or on a file, by an        *)
(* Extractor with one thread, batches of one row and no retry              *)
InitBatch ==
    /\ op = "extract_batch"
    /\ data \in [kind : {"table"}, rows : {1}, file : {NoFile}]
                   \cup [kind : {"path"}, rows : {0}, file : Files]
    /\ queries \in QueryLists(MaxQueries)
    /\ batch_file_kwargs \in KwargsValues
    /\ return_df = FALSE
    /\ file_kwargs = None
    /\ batch_size = 1
    /\ max_threads = 1
    /\ max_retries = 1
    /\ pc = "queries"
    /\ query_no = 0
    /\ batch_results = <<>>
    /\ runs = <<>>
    /\ pairs = <<>>
    /\ NoBackoff
    /\ NoOther
    /\ NoUtility
    /\ NoScript
    /\ Fresh

NextBatch ==
    \/ Next
    \/ BatchNextQuery
    \/ BatchStore
    \/ BatchReturn

SpecBatch == InitBatch /\ [][NextBatch]_vars

(* ---------------------------- two calls at once ------------------------ *)
(* the second call enters _process_batch for its one row: a semaphore of   *)
(* its own, and the row's thread started                                   *)
OtherProcessBatch ==
    /\ other_wstate = "none"
    /\ other_semaphore' = NewSemaphore(max_threads)
    /\ other_wstate' = "waiting"
    /\ UNCHANGED <<extractor, return_df, file_kwargs, batch, read_kwargs, pc, df, target, calls,
                   modelBuilt, raised, batch_start, started, semaphore, workers, results>>

(* the second call's worker enters `with semaphore:` *)
OtherAcquire ==
    /\ other_wstate = "waiting"
    /\ CanAcquire(other_semaphore)
    /\ other_semaphore' = other_semaphore - 1
    /\ other_wstate' = "running"
    /\ UNCHANGED <<extractor, return_df, file_kwargs, batch, read_kwargs, pc, df, target, calls,
                   modelBuilt, raised, batch_start, started, semaphore, workers, results>>

(* the second call's worker has its outcome and leaves `with semaphore:` *)
OtherExit ==
    /\ other_wstate = "running"
    /\ other_semaphore' = Release(other_semaphore)
    /\ other_wstate' = "done"
    /\ UNCHANGED <<extractor, return_df, file_kwargs, batch, read_kwargs, pc, df, target, calls,
                   modelBuilt, raised, batch_start, started, semaphore, workers, results>>

(* an extract_async call on a table, while a second call on the same       *)
(* Extractor processes a table of one row                                  *)
InitConcurrent ==
    /\ op = "extract_async"
    /\ data \in [kind : {"table"}, rows : 1..MaxRows, file : {NoFile}]
    /\ return_df = FALSE
    /\ file_kwargs = None
    /\ batch_size = MaxBatch
    /\ max_threads \in 1..MaxThreads
    /\ max_retries = 1
    /\ pc = "read"
    /\ NoBackoff
    /\ NoBatch
    /\ NoOther
    /\ NoUtility
    /\ NoScript
    /\ Fresh

NextConcurrent ==
    \/ Next
    \/ OtherProcessBatch
    \/ OtherAcquire
    \/ OtherExit

SpecConcurrent == InitConcurrent /\ [][NextConcurrent]_vars

(* ---------------------------- the retry wait on its own ---------------- *)
(* an Extractor with waits min_wait <= max_wait; no operation is called *)
InitWait ==
    /\ op = "none"
    /\ data = [kind |-> "sample", rows |-> 0, file |-> NoFile]
    /\ return_df = FALSE
    /\ file_kwargs = None
    /\ batch_size = 1
    /\ max_threads = 1
    /\ max_retries = MaxAttempt + 1
    /\ min_wait \in 0..MaxWait
    /\ max_wait \in min_wait..MaxWait
    /\ retry_attempt = 0
    /\ wait = 0
    /\ prev_wait = 0
    /\ pc = "idle"
    /\ NoBatch
    /\ NoOther
    /\ NoUtility
    /\ NoScript
    /\ Fresh

(* the retry decorator after one more failed attempt: it is not the last   *)
(* attempt allowed, and the wait is computed and slept                     *)
WaitBeforeRetry ==
    /\ ~StopAfterAttempt(retry_attempt + 1, max_retries)
    /\ retry_attempt' = retry_attempt + 1
    /\ prev_wait' = wait
    /\ wait' = WaitExponential(min_wait, min_wait, max_wait, retry_attempt + 1)
    /\ UNCHANGED <<op, data, return_df, file_kwargs, read_kwargs, batch_size, max_threads,
                   max_retries, min_wait, max_wait, apart, batch, other, pc, df, target, calls, modelBuilt, raised,
                   batch_start, started, semaphore, workers, results>>

NextWait == WaitBeforeRetry

SpecWait == InitWait /\ [][NextWait]_vars

(* ---------------------------- no operation of an Extractor runs -------- *)
NoCall ==
    /\ op = "none"
    /\ data = [kind |-> "sample", rows |-> 0, file |-> NoFile]
    /\ return_df = FALSE
    /\ file_kwargs = None
    /\ pc = "idle"
    /\ NoBackoff
    /\ NoBatch
    /\ NoOther
    /\ Fresh

(* the Extractor of the calls above: one thread, batches of one, no retry *)
NoExtractor ==
    /\ batch_size = 1
    /\ max_threads = 1
    /\ max_retries = 1

(* ---------------------------- Extractor.__init__ ----------------------- *)
(* values passed as `config`: the type isinstance sees and what `not       *)
(* config` sees.  None, {} and {"k": 1}, "" and "conf.yaml", a Path, an    *)
(* ExtractionConfig; 0 and 1, [] and ["k"], 0.0 and 1.5                    *)
ConfigValues ==
    [type : {"NoneType"}, truthy : {FALSE}]
        \cup [type : {"dict", "str", "int", "list", "float"}, truthy : BOOLEAN]
        \cup [type : {"Path", "ExtractionConfig"}, truthy : {TRUE}]

(* ExtractionConfig(config=..., config_path=...): the built configuration, *)
(* or what loading it raised                                               *)
ExtractionConfig(source, loads) ==
    IF loads THEN Returned([conf |-> source])
    ELSE Raised(Exc("ConfigurationError", "cannot load"))

(* the chain of tests on config in __init__ *)
InitConfig(config, loads) ==
    IF ~config.truthy THEN ExtractionConfig("default", TRUE)
    ELSE IF config.type \in {"dict", "str", "Path"} THEN ExtractionConfig(config.type, loads)
         ELSE IF config.type = "ExtractionConfig" THEN Returned([conf |-> "given"])
              ELSE Raised(Exc("ConfigurationError", "Invalid configuration type"))

(* Extractor(client, model_name, config, max_threads, batch_size,          *)
(* max_retries): the fields are stored, then the configuration is chosen   *)
Construct ==
    /\ applied = "none"
    /\ applied' = "Extractor"
    /\ max_threads' = arguments.max_threads
    /\ batch_size' = arguments.batch_size
    /\ max_retries' = arguments.max_retries
    /\ returned' = InitConfig(arguments.config, arguments.loads)
    /\ UNCHANGED <<op, data, backoff, arguments, script, return_df, file_kwargs, batch, other,
                   read_kwargs, pc, df, target, calls, modelBuilt, raised, batch_start,
                   started, semaphore, workers, results>>

InitConstruct ==
    /\ applied = "none"
    /\ arguments \in [config : ConfigValues, loads : BOOLEAN, max_threads : 1..MaxThreads,
                      batch_size : 1..MaxBatch, max_retries : 1..MaxRetries]
    /\ returned = NoOutcome
    /\ NoExtractor
    /\ NoScript
    /\ NoCall

NextConstruct == Construct

SpecConstruct == InitConstruct /\ [][NextConstruct]_vars

(* ---------------------------- the file reader by itself ---------------- *)
(* FileReader.validate_file(file_path) *)
ValidateFileCall ==
    /\ applied = "none"
    /\ arguments \in AllFiles
    /\ applied' = "validate_file"
    /\ returned' = ValidateFile(arguments)
    /\ UNCHANGED <<op, data, batch_size, max_threads, max_retries, backoff, arguments, script,
                   return_df, file_kwargs, batch, other, read_kwargs, pc, df, target, calls,
                   modelBuilt, raised, batch_start, started, semaphore, workers, results>>

(* FileReader.read_file(file_path) *)
ReadFileCall ==
    /\ applied = "none"
    /\ arguments \in AllFiles
    /\ applied' = "read_file"
    /\ returned' = ReadFile(arguments)
    /\ UNCHANGED <<op, data, batch_size, max_threads, max_retries, backoff, arguments, script,
                   return_df, file_kwargs, batch, other, read_kwargs, pc, df, target, calls,
                   modelBuilt, raised, batch_start, started, semaphore, workers, results>>

InitFile ==
    /\ applied = "none"
    /\ arguments \in AllFiles
    /\ returned = NoOutcome
    /\ NoExtractor
    /\ NoScript
    /\ NoCall

NextFile ==
    \/ ValidateFileCall
    \/ ReadFileCall

SpecFile == InitFile /\ [][NextFile]_vars

(* ---------------------------- the helpers by themselves ---------------- *)
(* flatten_extracted_data(item.model_dump()) *)
FlattenCall ==
    /\ applied = "none"
    /\ applied' = "flatten_extracted_data"
    /\ returned' = FlattenExtractedData(arguments, "")
    /\ UNCHANGED <<op, data, batch_size, max_threads, max_retries, backoff, arguments, script,
                   return_df, file_kwargs, batch, other, read_kwargs, pc, df, target, calls,
                   modelBuilt, raised, batch_start, started, semaphore, workers, results>>

InitFlatten ==
    /\ applied = "none"
    /\ arguments \in DumpedModels
    /\ returned = NoOutcome
    /\ NoExtractor
    /\ NoScript
    /\ NoCall

NextFlatten == FlattenCall

SpecFlatten == InitFlatten /\ [][NextFlatten]_vars

(* a function decorated with handle_errors is called *)
WrapperCall ==
    /\ applied = "none"
    /\ applied' = "handle_errors"
    /\ returned' = Wrapper(arguments.error_message, arguments.error_type,
                           arguments.default_return, arguments.func)
    /\ UNCHANGED <<op, data, batch_size, max_threads, max_retries, backoff, arguments, script,
                   return_df, file_kwargs, batch, other, read_kwargs, pc, df, target, calls,
                   modelBuilt, raised, batch_start, started, semaphore, workers, results>>

InitWrapper ==
    /\ applied = "none"
    /\ arguments \in DecoratorArguments
    /\ returned = NoOutcome
    /\ NoExtractor
    /\ NoScript
    /\ NoCall

NextWrapper == WrapperCall

SpecWrapper == InitWrapper /\ [][NextWrapper]_vars

(* ---------------------------- ExtractionResult by itself --------------- *)
(* result.success_rate is read *)
SuccessRateCall ==
    /\ applied = "none"
    /\ applied' = "success_rate"
    /\ returned' = Returned(SuccessRate(arguments))
    /\ UNCHANGED <<op, data, batch_size, max_threads, max_retries, backoff, arguments, script,
                   return_df, file_kwargs, batch, other, read_kwargs, pc, df, target, calls,
                   modelBuilt, raised, batch_start, started, semaphore, workers, results>>

InitRate ==
    /\ applied = "none"
    /\ arguments \in ExtractionResults
    /\ returned = NoOutcome
    /\ NoExtractor
    /\ NoScript
    /\ NoCall

NextRate == SuccessRateCall

SpecRate == InitRate /\ [][NextRate]_vars

(* ---------------------------- utils/prompts.py ------------------------- *)
(* the ${...} names of query_analysis_template, which prompts.py does not  *)
(* define: the raw query and the available column names                    *)
QueryAnalysisPlaceholders == {"query", "available_columns"}

(* the ${...} names of the user-prompt template a stage substitutes *)
TemplatePlaceholders(stage) ==
    CASE stage = "query_analysis" -> QueryAnalysisPlaceholders
      [] stage = "query_refinement" -> {"query"}
      [] stage = "guide_generation" -> {"data_characteristics", "available_columns"}
      [] stage = "schema_generation" ->
            {"refined_query", "data_characteristics", "structural_requirements",
             "organization_principles", "sample_text"}
      [] stage = "extraction" -> {"query", "patterns", "rules", "text"}

(* the keyword arguments the stage's method passes to substitute *)
SubstituteArguments(stage) ==
    CASE stage = "query_analysis" -> {"query", "available_columns"}
      [] stage = "query_refinement" -> {"query"}
      [] stage = "guide_generation" -> {"data_characteristics"}
      [] stage = "schema_generation" ->
            {"refined_query", "data_characteristics", "structural_requirements",
             "organization_principles", "sample_text"}
      [] stage = "extraction" -> {"query", "patterns", "rules", "text"}

(* string.Template.substitute: KeyError for a placeholder without a value; *)
(* a value without a placeholder is ignored                                *)
Substitute(placeholders, supplied) ==
    IF placeholders \subseteq supplied THEN Returned("prompt")
    ELSE Raised(Exc("KeyError", CHOOSE name \in placeholders : name \notin supplied))

(* ---------------------------- process_changelog ------------------------ *)
Others ==
    <<op, data, batch_size, max_threads, max_retries, backoff, utility, return_df,
      file_kwargs, batch, other, read_kwargs, pc, df, target, calls, modelBuilt, raised,
      batch_start, started, semaphore, workers, results>>

(* content = file_path.read_text(); a file that is not there raises *)
ReadText ==
    /\ cl_pc = "read"
    /\ exit_status = "running"
    /\ IF changelog.exists
       THEN /\ content' = changelog.generated
            /\ cl_pc' = "group"
            /\ exit_status' = exit_status
       ELSE /\ content' = content
            /\ cl_pc' = cl_pc
            /\ exit_status' = "1"
    /\ changelog' = FileAfter("read", changelog, <<>>)
    /\ UNCHANGED <<date_groups, new_content, Others>>

(* the header, the unreleased section and the version blocks are found,    *)
(* and the blocks with commits are grouped by date                         *)
GroupByDate ==
    /\ cl_pc = "group"
    /\ exit_status = "running"
    /\ date_groups' = GroupVersions(content.blocks, 1, <<>>)
    /\ cl_pc' = "render"
    /\ changelog' = FileAfter("group", changelog, <<>>)
    /\ UNCHANGED <<content, new_content, exit_status, Others>>

(* new_content is built *)
BuildNewContent ==
    /\ cl_pc = "render"
    /\ exit_status = "running"
    /\ new_content' = NewContent(content, date_groups)
    /\ cl_pc' = "write"
    /\ changelog' = FileAfter("render", changelog, NewContent(content, date_groups))
    /\ UNCHANGED <<content, date_groups, exit_status, Others>>

(* file_path.write_text(new_content); the function returns and the script  *)
(* ends                                                                    *)
WriteText ==
    /\ cl_pc = "write"
    /\ exit_status = "running"
    /\ changelog' = FileAfter("write", changelog, new_content)
    /\ cl_pc' = "done"
    /\ exit_status' = "0"
    /\ UNCHANGED <<content, date_groups, new_content, Others>>

(* a step before the write raises (the file cannot be decoded, memory runs *)
(* out): except Exception prints and calls sys.exit(1)                     *)
StepFails ==
    /\ cl_pc \in {"read", "group", "render"}
    /\ exit_status = "running"
    /\ exit_status' = "1"
    /\ UNCHANGED <<changelog, cl_pc, content, date_groups, new_content, Others>>

(* write_text raises: the file could not be opened and is as it was, or it *)
(* was opened, which empties it, and the write did not complete            *)
WriteFails ==
    /\ cl_pc = "write"
    /\ exit_status = "running"
    /\ changelog' \in {changelog, Rewritten(<<>>)}
    /\ exit_status' = "1"
    /\ UNCHANGED <<cl_pc, content, date_groups, new_content, Others>>

InitChangelog ==
    /\ changelog \in {Missing} \cup {Generated(text) : text \in Changelogs(MaxVersions)}
    /\ cl_pc = "read"
    /\ content = NoText
    /\ date_groups = <<>>
    /\ new_content = <<>>
    /\ exit_status = "running"
    /\ NoUtility
    /\ NoExtractor
    /\ NoCall

NextChangelog ==
    \/ ReadText
    \/ GroupByDate
    \/ BuildNewContent
    \/ WriteText
    \/ StepFails
    \/ WriteFails

SpecChangelog == InitChangelog /\ [][NextChangelog]_vars

(* ======================================================================= *)
(* Properties                                                              *)
(* ======================================================================= *)
Rows == 1..Len(df)

(* the workers inside `with semaphore:`: permit held, request outstanding *)
InFlight == {p \in 1..MaxRows : wstate[p] = "running"}

(* C1: within one extract call, at every instant at most max_threads       *)
(* workers hold a permit, however many rows the current batch has.         *)
C1_AtMostMaxThreadsInFlight == Cardinality(InFlight) <= max_threads

(* every permit is taken and another row of the batch waits for one *)
C1_Witness ==
    /\ Cardinality(InFlight) = max_threads
    /\ \E p \in 1..MaxRows : wstate[p] = "waiting"

(* the ledger record of a row whose completion call itself raised (and not *)
(* the validation of its items or the write into the table)                *)
CompletionFailed(rec) == rec.error[Len(rec.error)] \in {"llm error", "RetryError"}

(* C2: a row whose completion call fails on every attempt is attempted     *)
(* exactly max_retries times, and only then recorded as a FailedRow.       *)
C2_FailingRowAttemptedMaxRetries ==
    \A i \in 1..Len(failed_rows) :
        CompletionFailed(failed_rows[i]) => attempts[failed_rows[i].index] = max_retries

(* C3: a row's failure never aborts the call: with rows recorded as failed *)
(* the call is still running or has returned, it has raised nothing, it    *)
(* can always take a further step until it returns, and when it returns    *)
(* every row of every batch has been attempted and has ended.              *)
C3_RowFailureNeverAborts ==
    /\ failed_rows # <<>> => pc \in {"dispatch", "batch", "returned"} /\ exc = NoExc
    /\ pc \in {"dispatch", "batch"} => ENABLED Next
    /\ pc = "returned" /\ op = "extract" =>
           \A p \in Rows : Done(wstate[p]) /\ attempts[p] >= 1

(* the call returned although the first row failed, and the row after it,  *)
(* in the same or a later batch, was extracted                             *)
C3_Witness ==
    /\ pc = "returned"
    /\ Len(df) >= 2
    /\ wstate[1] = "failed"
    /\ wstate[2] = "succeeded"
    /\ Len(failed_rows) = 1

(* the positions in the ledger of the records that carry row index p *)
Records(p) == {i \in 1..Len(failed_rows) : failed_rows[i].index = p}

(* C4: every row has exactly one outcome under every interleaving: a row   *)
(* whose extraction raised has exactly one ledger record, with its index   *)
(* and the text submitted for it; any other row has none; the ledger has   *)
(* as many records as rows raised; and at return every row has its outcome.*)
C4_OneOutcomePerRow ==
    /\ \A p \in 1..MaxRows :
        /\ wstate[p] = "failed" =>
               /\ Cardinality(Records(p)) = 1
               /\ \A i \in Records(p) : failed_rows[i].text = df[p][target]
        /\ wstate[p] # "failed" => Records(p) = {}
    /\ Len(failed_rows) = Cardinality({p \in 1..MaxRows : wstate[p] = "failed"})
    /\ pc = "returned" /\ op = "extract" => \A p \in Rows : Done(wstate[p])

(* two rows of one batch failed, the second one first *)
C4_Witness ==
    /\ pc = "returned"
    /\ Len(failed_rows) = 2
    /\ failed_rows[1].index = 2
    /\ failed_rows[2].index = 1

(* the message of the ledger record of row p *)
LedgerError(p) == failed_rows[CHOOSE i \in Records(p) : TRUE].error

(* C5: with return_df the table has the input's rows in the input's order, *)
(* and at every moment, whatever order the workers complete in, a row that *)
(* has ended holds the values and the status of its own extraction and a   *)
(* row that has not ended holds none; so it is when extract returns.       *)
C5_TableRowsKeepTheirIndex ==
    op = "extract" /\ return_df /\ pc \in {"batch", "dispatch", "returned"} =>
        /\ Len(result_df) = Len(df)
        /\ \A p \in Rows :
            /\ result_df[p].cells = df[p]
            /\ \A k \in 1..Len(result_df[p].fields) :
                   result_df[p].fields[k].src = df[p][target]
            /\ wstate[p] = "succeeded" =>
                   result_df[p].status = Success /\ result_df[p].fields = witems[p]
            /\ wstate[p] = "failed" =>
                   /\ result_df[p].status.kind = "Failed"
                   /\ result_df[p].status.msg = LedgerError(p)
            /\ ~Done(wstate[p]) =>
                   result_df[p].status = NoStatus /\ result_df[p].fields = <<>>
        /\ pc = "returned" => \A p \in Rows : Done(wstate[p])

(* the second row's worker has written its items while the first row's     *)
(* request is still outstanding                                            *)
C5_Witness ==
    /\ return_df
    /\ wstate[1] = "running"
    /\ wstate[2] = "succeeded"
    /\ Len(result_df[2].fields) = MaxItems

(* the number of the batch the row at position p belongs to *)
BatchOf(p) == (p - 1) \div batch_size

(* C6: batches do not overlap: when a worker of a batch has been started,  *)
(* every worker of every earlier batch has ended, by success or by         *)
(* recorded failure.                                                       *)
C6_BatchesDoNotOverlap ==
    \A p, q \in 1..MaxRows :
        BatchOf(p) < BatchOf(q) /\ wstate[q] # "new" => Done(wstate[p])

(* a worker of the second batch has its request outstanding; the first     *)
(* batch ended with a recorded failure                                     *)
C6_Witness ==
    \E q \in Rows :
        /\ BatchOf(q) = 1
        /\ wstate[q] = "running"
        /\ wstate[1] = "failed"

(* the rows whose extraction succeeded *)
Succeeded == {p \in Rows : wstate[p] = "succeeded"}

(* the items of the rows of a sequence of positions, row after row *)
RECURSIVE ConcatItems(_)
ConcatItems(order) ==
    IF order = <<>> THEN <<>> ELSE witems[Head(order)] \o ConcatItems(Tail(order))

(* the positions of a set in increasing order *)
RECURSIVE Ascending(_)
Ascending(S) ==
    IF S = {} THEN <<>>
    ELSE LET m == CHOOSE x \in S : \A y \in S : x <= y IN <<m>> \o Ascending(S \ {m})

(* the orders in which the rows of a set can be taken *)
Orders(S) ==
    {f \in [1..Cardinality(S) -> S] : \A i, j \in 1..Cardinality(S) : i # j => f[i] # f[j]}

ListReturned == pc = "returned" /\ op = "extract" /\ ~return_df

(* C7 as claimed: the returned flat list is the concatenation of the items *)
(* of the successfully extracted rows taken in input row order, for every  *)
(* completion order of the workers.                                        *)
C7_ListInRowOrder == ListReturned => result_list = ConcatItems(Ascending(Succeeded))

(* C7 as amended: a worker that succeeds appends its row's items, in the   *)
(* order returned, at the end of the list; so the returned list is the     *)
(* concatenation of the succeeded rows' items with the rows taken batch by *)
(* batch and, within a batch, in the order their workers completed.        *)
C7_ListInCompletionOrder ==
    /\ [](ListReturned =>
            \E order \in Orders(Succeeded) :
                /\ \A i, j \in 1..Len(order) : i < j => BatchOf(order[i]) <= BatchOf(order[j])
                /\ result_list = ConcatItems(order))
    /\ [][\A p \in 1..MaxRows :
            ~return_df /\ wstate[p] = "running" /\ wstate'[p] = "succeeded" =>
                result_list' = result_list \o witems'[p]]_vars

(* both rows of one batch succeeded with items and the second row's items  *)
(* come first in the returned list                                         *)
C7_Witness ==
    /\ ListReturned
    /\ batch_size = 2
    /\ Succeeded = {1, 2}
    /\ Len(witems[1]) = MaxItems
    /\ Len(witems[2]) = 1
    /\ result_list = witems[2] \o witems[1]

(* the completion call of one of stages 1-4 raised *)
StageFailed == \E k \in 1..Len(Stages) : failure.step = Stages[k]

(* C8: when one of stages 1-4 fails during extract or get_schema, the call *)
(* raises an ExtractionError, the failing stage is the last one run, no    *)
(* per-row extraction request is issued and no result exists or is         *)
(* returned.                                                               *)
C8_StageFailureAborts ==
    StageFailed =>
        /\ pc = "raised"
        /\ exc.type = "ExtractionError"
        /\ calls # <<>> /\ calls[Len(calls)] = failure.step
        /\ ~modelBuilt
        /\ \A p \in 1..MaxRows : attempts[p] = 0 /\ wstate[p] = "new"
        /\ result_df = <<>> /\ result_list = <<>> /\ failed_rows = <<>>

(* extract on a table with rows: the guide-generation call raised *)
C8_Witness ==
    /\ op = "extract"
    /\ Len(df) = MaxRows
    /\ failure.step = "guide_generation"
    /\ pc = "raised"

(* C9: when reading the file raises a FileError, the caller of extract     *)
(* receives it with its kind preserved as FileError, and no LLM call is    *)
(* made.                                                                   *)
C9_FileErrorKindPreserved ==
    failure.step = "read_file" =>
        /\ pc = "raised"
        /\ exc.type = "FileError"
        /\ calls = <<>>
        /\ \A p \in 1..MaxRows : attempts[p] = 0

(* C10: in every extract call the stage 1-4 calls are issued in the order  *)
(* analysis, refinement, guide, schema, each at most once and, once the    *)
(* row phase is reached, each exactly once; no per-row request is issued   *)
(* and no worker started before the schema call has returned and the       *)
(* extraction model is built.                                              *)
C10_StagesInOrderBeforeRows ==
    op = "extract" =>
        /\ Len(calls) <= Len(Stages)
        /\ calls = SubSeq(Stages, 1, Len(calls))
        /\ (\E p \in 1..MaxRows : wstate[p] # "new" \/ attempts[p] > 0) =>
               calls = Stages /\ modelBuilt
        /\ pc \in {"results", "batch", "dispatch", "returned"} => calls = Stages /\ modelBuilt

(* a row's completion call has been made *)
C10_Witness ==
    /\ op = "extract"
    /\ calls = Stages
    /\ \E p \in Rows : attempts[p] >= 1

(* the items of row p are in the result the call is building *)
ItemsAccepted(p) ==
    IF return_df
    THEN result_df[p].fields = witems[p] /\ result_df[p].status = Success
    ELSE \E i \in 0..Len(result_list) :
             SubSeq(result_list, i + 1, i + Len(witems[p])) = witems[p]

(* C11: with max_retries = N, a row whose completion call fails k times    *)
(* (1 <= k < N) is attempted again, and when attempt k+1 succeeds the row  *)
(* is successful: its items are accepted and the ledger has no record of   *)
(* it.  So a row is recorded as failed for its completion call only after  *)
(* N failed attempts.                                                      *)
C11_SucceedsAfterFailures ==
    \A p \in 1..MaxRows :
        /\ wstate[p] = "failed" /\ CompletionFailed(failed_rows[CHOOSE i \in Records(p) : TRUE]) =>
               Len(werrs[p]) = max_retries
        /\ wstate[p] = "succeeded" =>
               /\ Len(werrs[p]) < max_retries
               /\ attempts[p] = Len(werrs[p]) + 1
               /\ Records(p) = {}
               /\ ItemsAccepted(p)

(* C12: the retry re-attempts only after an attempt that failed with       *)
(* ExtractionError: every attempt that was followed by another one raised  *)
(* ExtractionError, and an attempt that raised any other kind is the row's *)
(* last, the row being recorded as failed once; a row whose first attempt  *)
(* raised another kind is attempted once.  A row that failed with          *)
(* ExtractionError is given up only at attempt max_retries.                *)
C12_RetryOnlyOnExtractionError ==
    \A p \in 1..MaxRows :
        /\ \A i \in 1..Len(werrs[p]) :
               i < Len(werrs[p]) \/ wstate[p] \in {"running", "succeeded"} =>
                   werrs[p][i].type = "ExtractionError"
        /\ werrs[p] # <<>> /\ Last(werrs[p]).type # "ExtractionError" =>
               /\ wstate[p] = "failed"
               /\ attempts[p] = Len(werrs[p])
               /\ Cardinality(Records(p)) = 1
        /\ werrs[p] # <<>> /\ werrs[p][1].type # "ExtractionError" => attempts[p] = 1
        /\ /\ wstate[p] = "failed"
           /\ werrs[p] # <<>>
           /\ attempts[p] = Len(werrs[p])
           /\ Last(werrs[p]).type = "ExtractionError"
           => Len(werrs[p]) = max_retries

(* with retries left, a row was given up after one attempt that raised an  *)
(* exception of another kind, and another row was attempted again after an *)
(* ExtractionError                                                         *)
C12_Witness ==
    /\ max_retries = MaxRetries
    /\ \E p, q \in Rows :
        /\ wstate[p] = "failed"
        /\ attempts[p] = 1
        /\ werrs[p] = <<Exc("Exception", "llm error")>>
        /\ attempts[q] = 2
        /\ werrs[q][1].type = "ExtractionError"

(* C14: with return_df, when extract returns the table has every input    *)
(* row, every row's extraction_status is "Success" or "Failed: <message>", *)
(* it is "Failed: ..." exactly for the rows with a ledger record, with the *)
(* record's message, and no status is unset.                               *)
C14_EveryRowHasStatus ==
    op = "extract" /\ return_df /\ pc = "returned" =>
        /\ Len(result_df) = Len(df)
        /\ \A p \in Rows :
            /\ result_df[p].cells = df[p]
            /\ result_df[p].status.kind \in {"Success", "Failed"}
            /\ result_df[p].status.kind = "Failed" <=> Records(p) # {}
            /\ Records(p) # {} => result_df[p].status.msg = LedgerError(p)
        /\ \A i \in 1..Len(failed_rows) : failed_rows[i].index \in Rows

(* the table is returned with one row failed after its retries and the     *)
(* other extracted                                                         *)
C14_Witness ==
    /\ op = "extract" /\ return_df /\ pc = "returned"
    /\ Len(df) = 2
    /\ result_df[1].status = Success
    /\ result_df[2].status.kind = "Failed"
    /\ Last(result_df[2].status.msg) = "RetryError"

(* the LLM calls of get_schema *)
SchemaStages == <<"query_refinement", "guide_generation", "schema_generation">>

(* C17: get_schema issues its LLM calls in the order refinement, guide,    *)
(* schema, each at most once and all three when it returns; it issues no   *)
(* query-analysis call and no per-row call, starts no worker and reads no  *)
(* dataset.                                                                *)
C17_GetSchemaThreeCalls ==
    op = "get_schema" =>
        /\ Len(calls) <= Len(SchemaStages)
        /\ calls = SubSeq(SchemaStages, 1, Len(calls))
        /\ pc \in {"build", "returned"} => calls = SchemaStages
        /\ \A p \in 1..MaxRows : attempts[p] = 0 /\ wstate[p] = "new"
        /\ df = <<>> /\ result_df = <<>> /\ result_list = <<>> /\ failed_rows = <<>>

(* get_schema has returned the schema *)
C17_Witness ==
    /\ op = "get_schema"
    /\ pc = "returned"
    /\ modelBuilt
    /\ Len(calls) = 3

(* C13: for integers 0 <= min_wait <= max_wait the wait after failed       *)
(* attempt a is min(max_wait, min_wait * 2^(a-1)); it lies in              *)
(* [min_wait, max_wait] and is not less than the wait before it.           *)
C13_WaitIsCappedExponential ==
    retry_attempt >= 1 =>
        /\ wait = Min(max_wait, min_wait * 2 ^ (retry_attempt - 1))
        /\ min_wait <= wait /\ wait <= max_wait
        /\ retry_attempt >= 2 => prev_wait <= wait

(* the wait has grown from min_wait and is now held at max_wait, which is  *)
(* not a power-of-two multiple of min_wait                                 *)
C13_Witness ==
    /\ min_wait = 2
    /\ max_wait = MaxWait
    /\ retry_attempt = 3
    /\ prev_wait = 4
    /\ wait = max_wait

(* the message of the exception that reaches the except clause of          *)
(* extract_async when the step raised e                                    *)
ReachedAsync(step, e) ==
    IF step = "read_file" THEN e.msg
    ELSE <<"Data processing failed", "Failed to initialize extraction">>
             \o StageWrapper(step) \o e.msg

(* C15: every failure that reaches the top level of extract_async, of a    *)
(* file read, of a stage or of anything else, is raised to the caller as   *)
(* an ExtractionError whose message is "Async extraction failed: "         *)
(* followed by the message of the exception that reached the top level.    *)
C15_AsyncFailuresUniform ==
    op = "extract_async" /\ failure # NoFailure =>
        /\ pc = "raised"
        /\ exc.type = "ExtractionError"
        /\ exc.msg = <<"Async extraction failed">> \o ReachedAsync(failure.step, failure.e)

(* extract_async on a file that does not exist *)
C15_Witness ==
    /\ op = "extract_async"
    /\ pc = "raised"
    /\ failure.step = "read_file"
    /\ failure.e = Exc("FileError", "File not found")
    /\ exc.msg = <<"Async extraction failed", "File not found">>

LastRunOf(q) ==
    CHOOSE i \in 1..Len(pairs) : runs[i] = q /\ \A j \in (i + 1)..Len(pairs) : runs[j] # q

(* C18: extract_batch calls extract once per query in the order of the     *)
(* list, one call at a time: the queries called so far are the first ones  *)
(* of the list, every call before the current one has returned its pair,   *)
(* each returned pair comes from a full pipeline run (four stages, every   *)
(* row ended), and when extract_batch returns every query of the list has  *)
(* been run and has an entry that holds the pair its run returned.         *)
C18_OneExtractPerQueryInOrder ==
    op = "extract_batch" =>
        /\ runs = SubSeq(queries, 1, Len(runs))
        /\ Len(runs) = query_no
        /\ Len(pairs) = IF pc \in {"queries", "batch_returned"} THEN Len(runs) ELSE Len(runs) - 1
        /\ pc = "returned" => calls = Stages /\ \A p \in Rows : Done(wstate[p]) /\ attempts[p] = 1
        /\ pc \in {"queries", "batch_returned"} =>
               /\ DOMAIN batch_results = {runs[i] : i \in 1..Len(runs)}
               /\ \A q \in DOMAIN batch_results : batch_results[q] = pairs[LastRunOf(q)]
        /\ pc = "batch_returned" => runs = queries

(* extract_batch has returned for two different queries whose runs ended   *)
(* differently: the first query's row is in its ledger, the second's is    *)
(* extracted                                                               *)
C18_Witness ==
    /\ pc = "batch_returned"
    /\ queries = <<"q1", "q2">>
    /\ Len(batch_results["q1"].failed) = 1
    /\ batch_results["q2"].failed = <<>>
    /\ Len(batch_results["q2"].data) = MaxItems

(* C19: in extract_batch file_kwargs is only the options of file reading:  *)
(* for a path the reader is called with them for every query, and for an   *)
(* in-memory table every query runs as it does with file_kwargs absent,    *)
(* that is with return_df false, returning the flat list.                  *)
C19_FileKwargsOnlyForReading ==
    op = "extract_batch" =>
        /\ read_kwargs # "unread" => read_kwargs = OrEmpty(batch_file_kwargs)
        /\ data.kind = "table" /\ query_no >= 1 => ~return_df

(* the second call's requests in flight *)
OtherInFlight == IF other_wstate = "running" THEN 1 ELSE 0

(* C20: with two calls running on one Extractor, the requests in flight in *)
(* both calls together never exceed max_threads.                           *)
C20_SystemWideBound == Cardinality(InFlight) + OtherInFlight <= max_threads

(* C21: a config argument that is not None, not a dict, not a str or Path  *)
(* and not an ExtractionConfig makes the constructor raise                 *)
(* ConfigurationError, whether the value is truthy or falsy (0, [], 0.0);  *)
(* no Extractor is produced.                                               *)
InvalidConfig(config) ==
    config.type \notin {"NoneType", "dict", "str", "Path", "ExtractionConfig"}

C21_InvalidConfigRaises ==
    applied = "Extractor" /\ InvalidConfig(arguments.config)
        => ~returned.ok /\ returned.exc.type = "ConfigurationError"

(* C22 as stated: validate_file raises FileError for every path that does  *)
(* not exist and for every existing path whose extension is not one of the *)
(* five supported strings; for an existing path with one of them it        *)
(* returns that path.                                                      *)
C22_SupportedAsWritten ==
    applied = "validate_file"
        => IF arguments.exists /\ arguments.suffix \in SupportedExtensions
           THEN returned = Returned(arguments)
           ELSE ~returned.ok /\ returned.exc.type = "FileError"

(* C22, amended: validate_file raises FileError for every path that does   *)
(* not exist and for every existing path whose extension, compared without *)
(* regard to letter case, is not one of the five supported ones; for an    *)
(* existing path whose extension is one of them in any letter case it      *)
(* returns that same path and raises nothing.                              *)
C22_SupportedIgnoringCase ==
    applied = "validate_file"
        => IF arguments.exists
              /\ \E x \in SupportedExtensions : Lower(arguments.suffix) = x
           THEN returned.ok /\ returned.value = arguments /\ returned.exc = NoExc
           ELSE ~returned.ok /\ returned.exc.type = "FileError"

C22_Witness ==
    /\ applied = "validate_file"
    /\ arguments.exists
    /\ arguments.suffix = ".CSV"
    /\ returned = Returned(arguments)

(* C23: read_file never returns a table of zero rows; when the reader      *)
(* yields an empty table the call raises FileError; every failure reaches  *)
(* the caller as a FileError; a FileError raised inside (by validation or  *)
(* by the emptiness test) arrives as it was raised, not wrapped again,     *)
(* while a reader error arrives wrapped once.                              *)
Readable(f) == f.exists /\ Lower(f.suffix) \in SupportedExtensions /\ f.parses

C23_ReadFileErrors ==
    applied = "read_file"
        => /\ returned.ok => Len(returned.value) > 0
           /\ ~returned.ok => returned.exc.type = "FileError"
           /\ Readable(arguments) /\ arguments.rows = 0
                => returned = Raised(Exc("FileError", "File is empty"))
           /\ ~ValidateFile(arguments).ok => returned = ValidateFile(arguments)
           /\ ValidateFile(arguments).ok /\ ~arguments.parses
                => /\ ~returned.ok
                   /\ returned.exc.msg = <<"Error reading file", "parse error">>
           /\ Readable(arguments) /\ arguments.rows > 0
                => returned.ok /\ Len(returned.value) = arguments.rows

C23_Witness ==
    /\ applied = "read_file"
    /\ Readable(arguments)
    /\ arguments.rows = 0
    /\ returned = Raised(Exc("FileError", "File is empty"))

(* C24: flatten_extracted_data turns a nested mapping into a single-level  *)
(* one: a value under key c inside a mapping under key p gets key p_c, the *)
(* element at index i of a list of mappings under p gives keys p_i_c, a    *)
(* list whose elements are not mappings is stored whole as its JSON text   *)
(* under its own key, and a scalar keeps its key and value.  So            *)
(* {a: {b: 1, c: 2}} gives {a_b: 1, a_c: 2}, {a: [{b: 1}, {b: 2}]} gives     *)
(* {a_0_b: 1, a_1_b: 2} and {a: [1, 2, 3]} gives {a: "[1, 2, 3]"}.           *)

(* every list is a list of mappings or holds no mapping at all *)
RECURSIVE Uniform(_)
Uniform(value) ==
    CASE value.t = "dict" -> \A i \in 1..Len(value.v) : Uniform(value.v[i].value)
      [] value.t = "list" ->
            /\ \/ \A i \in 1..Len(value.v) : value.v[i].value.t = "dict"
               \/ \A i \in 1..Len(value.v) : value.v[i].value.t # "dict"
            /\ \A i \in 1..Len(value.v) : Uniform(value.v[i].value)
      [] OTHER -> TRUE

(* the claim's four rules, as the set of <<flat key, value>> a mapping     *)
(* found under the key path gives                                          *)
RECURSIVE FlatPairs(_, _)
FlatPairs(mapping, path) ==
    UNION { LET c == mapping.v[n].key
                x == mapping.v[n].value
                p == IF path = "" THEN c ELSE path \o "_" \o c
            IN CASE x.t = "dict" -> FlatPairs(x, p)
                 [] x.t = "list" /\ x.v # <<>> /\ \A i \in 1..Len(x.v) : x.v[i].value.t = "dict" ->
                       UNION { FlatPairs(x.v[i].value, p \o "_" \o ToString(i - 1)) :
                                 i \in 1..Len(x.v) }
                 [] x.t = "list" -> {<<p, Text(Dumps(x))>>}
                 [] OTHER -> {<<p, x>>}
          : n \in 1..Len(mapping.v) }

PairsOf(flattened) == {<<flattened[i].key, flattened[i].value>> : i \in 1..Len(flattened)}

C24_Examples ==
    /\ FlattenExtractedData(
           Mapping(<<Pair("a", Mapping(<<Pair("b", Number(1)), Pair("c", Number(2))>>))>>), "")
         = Returned(<<Pair("a_b", Number(1)), Pair("a_c", Number(2))>>)
    /\ FlattenExtractedData(
           Mapping(<<Pair("a", ListOf(<<Mapping(<<Pair("b", Number(1))>>),
                                        Mapping(<<Pair("b", Number(2))>>)>>))>>), "")
         = Returned(<<Pair("a_0_b", Number(1)), Pair("a_1_b", Number(2))>>)
    /\ FlattenExtractedData(
           Mapping(<<Pair("a", ListOf(<<Number(1), Number(2), Number(3)>>))>>), "")
         = Returned(<<Pair("a", Text("[1, 2, 3]"))>>)

C24_FlattenedSingleLevel ==
    applied = "flatten_extracted_data" /\ Uniform(arguments)
        => /\ returned.ok
           /\ \A i \in 1..Len(returned.value) : returned.value[i].value.t \in {"int", "str"}
           /\ \A i, j \in 1..Len(returned.value) :
                 returned.value[i].key = returned.value[j].key => i = j
           /\ PairsOf(returned.value) = FlatPairs(arguments, "")
           /\ C24_Examples

C24_Witness ==
    /\ applied = "flatten_extracted_data"
    /\ arguments = Mapping(<<Pair("d", Mapping(<<Pair("b", Number(1)), Pair("c", Number(2))>>)),
                             Pair("a", ListOf(<<Mapping(<<Pair("b", Number(1))>>),
                                                Mapping(<<Pair("b", Number(2))>>)>>))>>)
    /\ returned = Returned(<<Pair("d_b", Number(1)), Pair("d_c", Number(2)),
                            Pair("a_0_b", Number(1)), Pair("a_1_b", Number(2))>>)

(* C25: a function decorated with handle_errors(error_message, error_type, *)
(* default_return) gives its own result when it does not raise; when it    *)
(* raises e, the call raises error_type with the message                   *)
(* "<error_message>: <message of e>" if default_return is None, and        *)
(* returns default_return otherwise, also when that value is falsy.        *)
C25_WrapperContract ==
    applied = "handle_errors"
        => /\ arguments.func.ok => returned = arguments.func
           /\ ~arguments.func.ok /\ arguments.default_return = None
                => /\ ~returned.ok
                   /\ returned.exc.type = arguments.error_type
                   /\ returned.exc.msg = <<arguments.error_message>> \o arguments.func.exc.msg
           /\ ~arguments.func.ok /\ arguments.default_return # None
                => /\ returned.ok
                   /\ returned.value = arguments.default_return
                   /\ returned.exc = NoExc

C25_Witness ==
    /\ applied = "handle_errors"
    /\ arguments.func = Raised(Exc("KeyError", "boom"))
    /\ arguments.default_return = None
    /\ returned = Raised([type |-> "FileError", msg |-> <<"Extraction failed", "boom">>])

(* C26: each of the five stages supplies a value for every placeholder of  *)
(* the template it substitutes, so building the prompt of a stage that has *)
(* run (stages 1-4 in calls, stage 5 once a row was attempted) never fails *)
(* for a missing placeholder; the guide stage supplies both the data       *)
(* characteristics and the available columns.                              *)
PromptOf(stage) == Substitute(TemplatePlaceholders(stage), SubstituteArguments(stage))

C26_EveryPlaceholderSupplied ==
    /\ \A k \in 1..Len(calls) : PromptOf(calls[k]).ok
    /\ (\E p \in 1..MaxRows : attempts[p] > 0) => PromptOf("extraction").ok
    /\ "guide_generation" \in {calls[k] : k \in 1..Len(calls)}
         => {"data_characteristics", "available_columns"}
                \subseteq SubstituteArguments("guide_generation")

(* ---- the rewritten changelog ---- *)
Blocks == content.blocks

(* new_content has been built *)
Rendered == cl_pc \in {"write", "done"}

(* a list item that ends in a quoted hexadecimal token *)
DashLedWithHash(line) ==
    line.lead = "" /\ line.dash /\ \E i \in 1..Len(line.ticks) : IsHex(line.ticks[i])

(* "- " anywhere on the line, and a quoted hexadecimal token after it *)
DashWithHash(line) == line.dash /\ \E i \in 1..Len(line.ticks) : IsHex(line.ticks[i])

(* block i is in the list of its date *)
InGroups(i) ==
    \E g \in 1..Len(date_groups) :
        /\ date_groups[g].date = Blocks[i].date
        /\ \E e \in 1..Len(date_groups[g].versions) :
              date_groups[g].versions[e].version = Blocks[i].version

DateHeadings(date) == {k \in 1..Len(new_content) : new_content[k] = "## " \o date}

NonEmptyAt(date) ==
    {i \in 1..Len(Blocks) :
        Blocks[i].date = date
            /\ \E k \in 1..Len(Blocks[i].changes) : DashWithHash(Blocks[i].changes[k])}

(* Versions lists the versions in ascending numeric order *)
Position(version) == CHOOSE n \in 1..Len(Versions) : Versions[n] = version

Lowest(S) == CHOOSE i \in S : \A j \in S : Position(Blocks[i].version) <= Position(Blocks[j].version)
Highest(S) == CHOOSE i \in S : \A j \in S : Position(Blocks[i].version) >= Position(Blocks[j].version)

Label(S) ==
    IF Cardinality(S) = 1
    THEN "### [" \o VersionText(Blocks[Lowest(S)].version) \o "]"
    ELSE "### [" \o VersionText(Blocks[Lowest(S)].version) \o " - "
           \o VersionText(Blocks[Highest(S)].version) \o "]"

VersionTexts == {VersionText(Versions[n]) : n \in 1..Len(Versions)}

Links ==
    {""} \cup {"(compare/" \o v \o ")" : v \in VersionTexts}
         \cup {"(https://github.com/Blacksuan19/structx/compare/" \o a \o "..." \o b \o ")" :
                 a \in VersionTexts, b \in VersionTexts}

VersionHeadingTexts ==
    {("### [" \o a \o "]") \o l : a \in VersionTexts, l \in Links}
        \cup {("### [" \o a \o " - " \o b \o "]") \o l :
                a \in VersionTexts, b \in VersionTexts, l \in Links}

C28_OneHeadingPerDate ==
    Rendered
        => /\ \A d \in Dates :
                 IF NonEmptyAt(d) = {} THEN DateHeadings(d) = {}
                 ELSE /\ Cardinality(DateHeadings(d)) = 1
                      /\ \A k \in DateHeadings(d) :
                            /\ k < Len(new_content)
                            /\ \E l \in Links : new_content[k + 1] = Label(NonEmptyAt(d)) \o l
           /\ Cardinality({k \in 1..Len(new_content) : new_content[k] \in VersionHeadingTexts})
                = Cardinality({d \in Dates : NonEmptyAt(d) # {}})

C28_Witness ==
    /\ cl_pc = "done"
    /\ \E d \in Dates :
          /\ {VersionText(Blocks[i].version) : i \in NonEmptyAt(d)} = {"1.9.0", "1.10.0"}
          /\ \E k \in DateHeadings(d) : new_content[k + 1] = "### [1.9.0 - 1.10.0]"

(* C29: within a date group the commit lines of its versions, taken in     *)
(* descending version order, are de-duplicated by commit hash: every hash  *)
(* is on exactly one emitted line, the first line that has it, and the     *)
(* kept lines are in the order of those first occurrences.                 *)

(* the hash of a commit line: the quoted token it ends in *)
CommitHash(commit) == commit.ticks[Len(commit.ticks)]

RECURSIVE InDescendingOrder(_)
InDescendingOrder(S) ==
    IF S = {} THEN <<>> ELSE <<Highest(S)>> \o InDescendingOrder(S \ {Highest(S)})

RECURSIVE LinesOf(_)
LinesOf(order) ==
    IF order = <<>> THEN <<>>
    ELSE LET matching == SelectSeq(Blocks[Head(order)].changes, DashWithHash)
         IN [k \in 1..Len(matching) |->
                FixedCommit([words |-> matching[k].words, ticks |-> matching[k].ticks])]
              \o LinesOf(Tail(order))

RECURSIVE FirstOfEachHash(_, _)
FirstOfEachHash(lines, hashes) ==
    IF lines = <<>> THEN <<>>
    ELSE IF CommitHash(Head(lines)) \in hashes
         THEN FirstOfEachHash(Tail(lines), hashes)
         ELSE <<Head(lines)>>
                \o FirstOfEachHash(Tail(lines), hashes \cup {CommitHash(Head(lines))})

(* the lines emitted under the date heading at k and its version heading *)
GroupLines(k) ==
    LET later == {j \in (k + 1)..Len(new_content) :
                     \E d \in Dates : new_content[j] = "## " \o d}
        end == IF later = {} THEN Len(new_content)
               ELSE (CHOOSE j \in later : \A x \in later : j <= x) - 1
    IN [n \in 1..(end - (k + 1)) |-> new_content[k + 1 + n]]

C29_DeduplicatedByCommitHash ==
    Rendered
        => \A d \in Dates : \A k \in DateHeadings(d) :
              LET kept == FirstOfEachHash(LinesOf(InDescendingOrder(NonEmptyAt(d))), {})
              IN GroupLines(k) = [n \in 1..Len(kept) |-> CommitText(kept[n])]

(* C30: the file is written only after the whole pass has succeeded in     *)
(* memory: while reading, grouping and rendering the file is as it was,    *)
(* the only step that changes it is the write, which writes the finished   *)
(* new_content; when one of the earlier steps fails the process exits with *)
(* status 1 and the file is what it was before the call.                   *)
C30_FileUntouchedBeforeWrite ==
    /\ cl_pc = "read" => changelog.form \in {"none", "generated"}
    /\ cl_pc \in {"group", "render"} => changelog = Generated(content)
    /\ cl_pc \in {"read", "group", "render"} => exit_status \in {"running", "1"}
    /\ cl_pc = "write" /\ exit_status = "running"
         => changelog = Generated(content) /\ new_content = NewContent(content, date_groups)
    /\ cl_pc = "done" => exit_status = "0" /\ changelog = Rewritten(new_content)

C30_WriteOnlyAfterSuccess ==
    /\ []C30_FileUntouchedBeforeWrite
    /\ [][changelog' # changelog => cl_pc = "write"]_vars
    /\ [][exit_status = "running" /\ exit_status' # "running" /\ cl_pc' # "done"
            => exit_status' = "1"]_vars

C30_Witness ==
    /\ exit_status = "1"
    /\ cl_pc = "render"
    /\ content.blocks # <<>>
    /\ date_groups # <<>>
    /\ changelog = Generated(content)

(* C31: for an ExtractionResult with s elements in data and f rows in       *)
(* failed, success_rate is s/(s+f)*100 when s+f > 0 and 0 when s+f = 0; it  *)
(* lies between 0 and 100; s = 4 and f = 1 give 80.                        *)
C31_SuccessRate ==
    /\ SuccessRate([frame |-> FALSE, data |-> 4, failed |-> 1]) = Whole(80)
    /\ applied = "success_rate" =>
           LET s == arguments.data
               f == arguments.failed
               rate == returned.value
           IN /\ returned.ok
              /\ rate.den > 0
              /\ s + f > 0 => rate.num * (s + f) = s * 100 * rate.den
              /\ s + f = 0 => rate.num = 0
              /\ 0 <= rate.num /\ rate.num <= 100 * rate.den

(* the rate of a list of one element with two failed rows has been read: a *)
(* third of a hundred                                                      *)
C31_Witness ==
    /\ applied = "success_rate"
    /\ ~arguments.frame
    /\ arguments.data = 1
    /\ arguments.failed = 2
    /\ returned.value = [num |-> 100, den |-> 3]

(* where the items of each succeeded row could lie in the flat list: the   *)
(* number of elements in front of the row's first item                     *)
Placements == [Succeeded -> 0..Len(result_list)]

(* the end of row p's items under a placement *)
EndOf(start, p) == start[p] + Len(witems[p])

(* C32: with return_df = false, under every interleaving of the workers    *)
(* the returned flat list is grouped by row and ordered by batch: the list *)
(* is cut into one run per extracted row, the run of a row holds the row's *)
(* items in the order the completion returned them, every element of the   *)
(* list is in one run, and the run of a row of an earlier batch ends       *)
(* before the run of a row of a later batch begins.                        *)
C32_GroupedByRowOrderedByBatch ==
    ListReturned =>
        \E start \in Placements :
            /\ \A p \in Succeeded :
                   /\ EndOf(start, p) <= Len(result_list)
                   /\ SubSeq(result_list, start[p] + 1, EndOf(start, p)) = witems[p]
            /\ \A p, q \in Succeeded :
                   p # q => EndOf(start, p) <= start[q] \/ EndOf(start, q) <= start[p]
            /\ \A i \in 1..Len(result_list) :
                   \E p \in Succeeded : start[p] < i /\ i <= EndOf(start, p)
            /\ \A p, q \in Succeeded :
                   BatchOf(p) < BatchOf(q) => EndOf(start, p) <= start[q]

(* the list is returned with the items of two rows of two batches, each    *)
(* row's in one run and the first batch's first                            *)
C32_Witness ==
    /\ ListReturned
    /\ batch_size = 1
    /\ Succeeded = {1, 2}
    /\ Len(witems[1]) = MaxItems
    /\ Len(witems[2]) = MaxItems
    /\ result_list = witems[1] \o witems[2]

(* the rows a thread has been started for *)
Dispatched == {p \in 1..MaxRows : wstate[p] # "new"}

(* ceil(n / b) *)
Ceil(n, b) == (n + b - 1) \div b

(* the rows of the k-th consecutive slice of b rows (k = 0, 1, ...) *)
Slice(k, n, b) == (k * b + 1)..Min((k + 1) * b, n)

(* C33: for n rows and batch_size b >= 1 the batches are the consecutive   *)
(* slices of b rows in input order, the last one possibly shorter, and     *)
(* there are ceil(n/b) of them; a row is handed to a worker in the batch   *)
(* of its slice, with its own index and text, once: the rows handed out so *)
(* far are the rows in front of the loop's position, a row handed out is   *)
(* never handed out again, and at return every row has been handed out.    *)
C33_ConsecutiveSlicesEveryRowOnce ==
    /\ [](op = "extract" =>
            /\ batch_start % batch_size = 0
            /\ pc # "dispatch" => Dispatched = 1..Min(batch_start, Len(df))
            /\ pc = "dispatch" =>
                   /\ batch_start < Len(df)
                   /\ Dispatched = 1..(batch_start + started)
                   /\ Dispatched \ (1..batch_start)
                          \subseteq Slice(batch_start \div batch_size, Len(df), batch_size)
            /\ \A p \in Dispatched : wargs[p] = [row_text |-> df[p][target], row_idx |-> p]
            /\ pc = "returned" =>
                   /\ Dispatched = Rows
                   /\ batch_start = batch_size * Ceil(Len(df), batch_size))
    /\ [][\A p \in 1..MaxRows :
            /\ wstate[p] # "new" => wstate'[p] # "new" /\ wargs'[p] = wargs[p]
            /\ wstate[p] # "waiting" /\ wstate'[p] = "waiting" =>
                   /\ wstate[p] = "new"
                   /\ pc = "dispatch"
                   /\ p \in Slice(batch_start \div batch_size, Len(df), batch_size)
                   /\ \A q \in 1..MaxRows : q # p => wstate'[q] = wstate[q]]_vars
    /\ [][pc = "dispatch" /\ pc' = "batch" =>
            /\ Slice(batch_start \div batch_size, Len(df), batch_size) \subseteq Dispatched
            /\ batch_start' = batch_start + batch_size]_vars

(* a table of MaxRows rows has been processed in MaxRows batches of one    *)
(* row, and extract has returned                                           *)
C33_Witness ==
    /\ op = "extract"
    /\ pc = "returned"
    /\ Len(df) = MaxRows
    /\ batch_size = 1
    /\ batch_start = MaxRows
    /\ Dispatched = 1..MaxRows

(* the items of row p in the flat list *)
ListedOf(p) == {i \in 1..Len(result_list) : result_list[i].src = wargs[p].row_text}

(* C34: acceptance of a row's items is all-or-nothing.  A row for which a  *)
(* completion returned an item that the generated model rejects has no     *)
(* item accepted, neither the items in front of the rejected one nor those *)
(* behind it: the row has ended as failed, with return_df = false none of  *)
(* its items is in the list, and the ledger has exactly one record of it.  *)
(* The items of a row are in the list only if every item of the response   *)
(* they came with was validated.                                           *)
C34_AllOrNothing ==
    \A p \in 1..MaxRows :
        /\ wrejected[p] =>
               /\ wstate[p] = "failed"
               /\ witems[p] = <<>>
               /\ Cardinality(Records(p)) = 1
               /\ Last(werrs[p]).type = "ValidationError"
               /\ ~return_df => ListedOf(p) = {}
               /\ return_df /\ p \in Rows => result_df[p].fields = <<>>
        /\ wargs[p] # NoArgs /\ ListedOf(p) # {} =>
               /\ ~wrejected[p]
               /\ wstate[p] = "succeeded"
               /\ Cardinality(ListedOf(p)) = Len(witems[p])

(* with return_df = false the completion of the second row returned        *)
(* MaxItems items the last of which was rejected; the row is in the ledger *)
(* and the returned list holds the first row's items only                  *)
C34_Witness ==
    /\ ListReturned
    /\ Len(df) = 2
    /\ wrejected[2]
    /\ wstate[1] = "succeeded"
    /\ result_list = witems[1]
    /\ Len(result_list) = MaxItems
    /\ Len(failed_rows) = 1
    /\ failed_rows[1].index = 2

(* the words by which a message names a stage *)
StageName(stage) ==
    CASE stage = "query_analysis" -> "Query analysis failed"
      [] stage = "query_refinement" -> "Query refinement failed"
      [] stage = "guide_generation" -> "Guide generation failed"
      [] stage = "schema_generation" -> "Schema generation failed"

(* the segments of message msg from position i on *)
From(msg, i) == SubSeq(msg, i, Len(msg))

(* C35: when stage k of stages 1-4 fails during extract or get_schema, the *)
(* ExtractionError that reaches the caller carries a message that names    *)
(* that stage, followed (after the stage's name) by the message of the     *)
(* original failure; for each of the four stages.                          *)
C35_MessageNamesFailingStage ==
    StageFailed /\ pc = "raised" =>
        /\ exc.type = "ExtractionError"
        /\ \E i \in 1..Len(exc.msg) :
               /\ exc.msg[i] = StageName(failure.step)
               /\ From(exc.msg, i + 1) = failure.e.msg

(* extract is called with a table in memory *)
TableGiven == op = "extract" /\ data.kind = "table"

(* C36: extract never modifies the caller's in-memory input table: at     *)
(* every moment of the call, and so after it has returned (with either     *)
(* return shape) or raised, the table has the rows, the columns and the    *)
(* cell values it was given with; the extracted columns and the            *)
(* extraction_status column are written to a copy only.                    *)
C36_InputTableUnchanged ==
    /\ [](TableGiven => CallerTable = WithoutExtraction(Table(data.rows)))
    /\ [][TableGiven /\ result_df' # result_df => result_obj' = "copy"]_vars
    /\ [][TableGiven /\ df' # df => pc = "read" /\ df' = Table(data.rows)]_vars

(* extract has returned the table with the items of the first row and the  *)
(* status of every row written                                             *)
C36_Witness ==
    /\ TableGiven
    /\ return_df
    /\ pc = "returned"
    /\ Len(df) = MaxRows
    /\ Len(result_df[1].fields) = MaxItems
    /\ \A p \in Rows : result_df[p].status # NoStatus
    /\ result_df[MaxRows].status.kind = "Failed"

(* C37: for max_threads, batch_size and max_retries of at least 1 and       *)
(* completion calls that each return or raise, every call ends, returned   *)
(* or raised; every worker that waits for a permit gets one, and every     *)
(* worker that holds one ends; a worker gives its permit back when it      *)
(* ends, by success or by failure; and when extract has returned, every    *)
(* permit of the semaphore is back and no worker waits or runs.            *)
C37_ExtractTerminates ==
    /\ <>(pc \in {"returned", "raised"})
    /\ \A p \in 1..MaxRows :
           /\ (wstate[p] = "waiting") ~> (wstate[p] = "running")
           /\ (wstate[p] = "running") ~> Done(wstate[p])
    /\ [][\A p \in 1..MaxRows :
            wstate[p] = "running" /\ Done(wstate'[p]) => semaphore' = semaphore + 1]_vars
    /\ [](op = "extract" /\ pc = "returned" =>
            /\ semaphore = max_threads
            /\ InFlight = {}
            /\ \A p \in 1..MaxRows : wstate[p] # "waiting"
            /\ \A p \in Rows : Done(wstate[p]))

(* extract has returned after a batch with more rows than permits, in      *)
(* which one row succeeded and one failed after its retries                *)
C37_Witness ==
    /\ op = "extract"
    /\ pc = "returned"
    /\ max_threads = 1
    /\ batch_size = MaxBatch
    /\ Len(df) = MaxBatch
    /\ wstate[1] = "failed"
    /\ attempts[1] = MaxRetries
    /\ wstate[2] = "succeeded"
    /\ semaphore = 1

(* the query analysis of an extract call has returned *)
AnalysisReturned ==
    /\ op = "extract"
    /\ calls # <<>>
    /\ failure.step # "query_analysis"

(* the analysis named a column the table does not have *)
TargetMissing == AnalysisReturned /\ target \notin Columns

(* C38: if query analysis returns a target_column that is not one of the    *)
(* input table's columns, extract raises an ExtractionError, at the latest *)
(* when the sample text is taken and before the guide is asked for, and no *)
(* worker is started and no per-row request issued; and every row that is  *)
(* extracted is extracted from the column the analysis named.              *)
C38_MissingTargetColumnRaises ==
    /\ [](TargetMissing =>
            /\ pc \in {"refine", "guide", "raised"}
            /\ pc = "raised" => exc.type = "ExtractionError"
            /\ \A k \in 1..Len(calls) : calls[k] \in {"query_analysis", "query_refinement"}
            /\ \A p \in 1..MaxRows :
                   attempts[p] = 0 /\ wstate[p] = "new" /\ wargs[p] = NoArgs)
    /\ TargetMissing ~> (pc = "raised")
    /\ [](\A p \in 1..MaxRows :
            wargs[p] # NoArgs =>
                target \in Columns /\ wargs[p].row_text = df[p][target])

(* the analysis named a missing column, the refinement returned, and the   *)
(* call has raised at the sample text with the column's name as the        *)
(* original message                                                        *)
C38_Witness ==
    /\ TargetMissing
    /\ Len(df) = MaxRows
    /\ calls = <<"query_analysis", "query_refinement">>
    /\ failure.step = "sample_text"
    /\ pc = "raised"
    /\ exc.type = "ExtractionError"
    /\ Last(exc.msg) = NoColumn
====
